---- MODULE Spec2Model ----
(***************************************************************************)
(* A model of mkdocs/config/config_options.py: the option classes that     *)
(* validate one configuration field each, and the three-pass lifecycle     *)
(* (pre_validation, validate/run_validation, post_validation) they run in. *)
(*                                                                         *)
(* Python values are records with the same four fields, so that any two    *)
(* of them can be compared: ty is the Python type, n the number of an int, *)
(* s the text of a str, items the elements of a list.                      *)
(***************************************************************************)
EXTENDS Integers, Sequences, FiniteSets, TLC

\* ------------------------------------------------------------ bounds
\* Longest raw list given to a ListOfItems field.
MaxLen == 3

\* ------------------------------------------------------------ values
NoneV == [ty |-> "NoneType", n |-> 0, s |-> "", items |-> <<>>]
IntV(k) == [ty |-> "int", n |-> k, s |-> "", items |-> <<>>]
StrV(x) == [ty |-> "str", n |-> 0, s |-> x, items |-> <<>>]
ListV(xs) == [ty |-> "list", n |-> 0, s |-> "", items |-> xs]
\* A key that the mapping does not hold (Config.get answers None for it).
Missing == [ty |-> "<missing>", n |-> 0, s |-> "", items |-> <<>>]

\* The items a raw list may hold: YAML scalars, null included.
ItemValues == {NoneV, IntV(1), IntV(3), StrV("a")}

SeqsUpTo(S, k) == UNION {[1..m -> S] : m \in 0..k}

\* config.get(key): None for a key that is not there.
Get(mapping, key) == IF mapping[key] = Missing THEN NoneV ELSE mapping[key]

\* The outcome of a call: a returned value or a raised ValidationError.
Return(v) == [raised |-> FALSE, val |-> v, msg |-> ""]
Raise(m) == [raised |-> TRUE, val |-> NoneV, msg |-> m]

\* ------------------------------------------------------------ messages
MissingRequired == "Required configuration not provided."
TypeMismatch(expected, received) ==
    "Expected type: <class '" \o expected \o "'> but received: <class '" \o received \o "'>"
NotAList(received) ==
    "Expected a list of items, but a <class '" \o received \o "'> was given."

\* ------------------------------------------------------------ Type
\* Mutant of Type.run_validation: the two types swapped in the message.
Type_run_validation_Swapped(self, value) ==
    IF value.ty # self.type_
    THEN Raise(TypeMismatch(value.ty, self.type_))
    ELSE Return(value)

\* Type.run_validation for an option built without a length.
Type_run_validation(self, value) ==
    IF value.ty # self.type_
    THEN Raise(TypeMismatch(self.type_, value.ty))
    ELSE Return(value)

\* ------------------------------------------------------------ OptionallyRequired
\* What validate() did: its outcome, and the run_validation calls it made
\* (each with the value it passed).
Outcome(out, made) == [out |-> out, calls |-> made]

\* Mutants of validate(): the required branch forgets to raise; a default is
\* returned without being validated; the early return for an optional value
\* is lost, so run_validation receives None.
OptionallyRequired_validate_NoRaise(self, value) ==
    IF value = NoneV
    THEN IF self.default # NoneV
         THEN Outcome(Type_run_validation(self, self.default), <<self.default>>)
         ELSE Outcome(Return(NoneV), <<>>)
    ELSE Outcome(Type_run_validation(self, value), <<value>>)

OptionallyRequired_validate_SkipDefault(self, value) ==
    IF value = NoneV
    THEN IF self.default # NoneV
         THEN Outcome(Return(self.default), <<>>)
         ELSE IF ~self.required
              THEN Outcome(Return(NoneV), <<>>)
              ELSE Outcome(Raise(MissingRequired), <<>>)
    ELSE Outcome(Type_run_validation(self, value), <<value>>)

OptionallyRequired_validate_RunsNone(self, value) ==
    IF value = NoneV /\ self.default # NoneV
    THEN Outcome(Type_run_validation(self, self.default), <<self.default>>)
    ELSE IF value = NoneV /\ self.required
         THEN Outcome(Raise(MissingRequired), <<>>)
         ELSE Outcome(Type_run_validation(self, value), <<value>>)

\* OptionallyRequired.validate, with Type.run_validation as the subclass's.
OptionallyRequired_validate(self, value) ==
    IF value = NoneV
    THEN IF self.default # NoneV
         THEN Outcome(Type_run_validation(self, self.default), <<self.default>>)
         ELSE IF ~self.required
              THEN Outcome(Return(NoneV), <<>>)
              ELSE Outcome(Raise(MissingRequired), <<>>)
    ELSE Outcome(Type_run_validation(self, value), <<value>>)

\* ------------------------------------------------------------ ListOfItems
\* ListOfItems.run_validation up to the item loops: the value is rejected,
\* returned as it is (the empty list), or its items go through the loops.
\* Mutant: the isinstance(value, list) check is lost.
ListOfItems_enter_NoListCheck(self, value) ==
    IF value = NoneV /\ (self.required \/ self.default = NoneV)
    THEN [kind |-> "raise", out |-> Raise(MissingRequired)]
    ELSE LET v == IF value = NoneV THEN self.default ELSE value
         IN  IF v.items = <<>>
             THEN [kind |-> "return", out |-> Return(v)]
             ELSE [kind |-> "loop", out |-> Return(v)]

ListOfItems_enter(self, value) ==
    IF value = NoneV /\ (self.required \/ self.default = NoneV)
    THEN [kind |-> "raise", out |-> Raise(MissingRequired)]
    ELSE LET v == IF value = NoneV THEN self.default ELSE value
         IN  IF v.ty # "list"
             THEN [kind |-> "raise", out |-> Raise(NotAList(v.ty))]
             ELSE IF v.items = <<>>
                  THEN [kind |-> "return", out |-> Return(v)]
                  ELSE [kind |-> "loop", out |-> Return(v)]

\* fake_config.config_file_path: the parent's, when pre_validation stored the
\* parent config in self._config; otherwise the assignment raises
\* AttributeError and the fresh Config keeps its own (None).
FakeConfigPath(bound, parent_path) == IF bound THEN parent_path ELSE "None"

\* Mutant: one loop that runs the three phases item by item.
AfterItem_PerItem(phase, i, n) ==
    IF phase = "pre" THEN [phase |-> "run", i |-> i]
    ELSE IF phase = "run" THEN [phase |-> "post", i |-> i]
    ELSE IF i < n THEN [phase |-> "pre", i |-> i + 1]
    ELSE [phase |-> "return", i |-> 1]

\* The three "for key_name in fake_config" loops, one after the other: the
\* position after the call of `phase` for item i of n.
AfterItem(phase, i, n) ==
    IF i < n THEN [phase |-> phase, i |-> i + 1]
    ELSE IF phase = "pre" THEN [phase |-> "run", i |-> 1]
    ELSE IF phase = "run" THEN [phase |-> "post", i |-> 1]
    ELSE [phase |-> "return", i |-> 1]

\* [fake_config[k] for k in fake_keys]
ListOfItems_result(fake_config) == ListV(fake_config)

\* ------------------------------------------------------------ the program's state
Fields == {"site_name", "items"}
\* The schema, in declaration order.
Schema == <<"site_name", "items">>

VARIABLES
    option,            \* the schema's option objects: default, required, ...
    raw,               \* the document as loaded (kept to state the claims)
    data,              \* Config.data: raw values, replaced by normalized ones
    config_file_path,  \* Config.config_file_path
    failed,            \* the (key, message) pairs Config.validate collects
    config_warnings,   \* the (key, message) warnings Config.validate collects
    pc,                \* the pass Config.validate is in
    idx,               \* the field (position in Schema) the pass is at
    lo_bound,          \* ListOfItems._config is set
    lo_key_name,       \* ListOfItems._key_name
    lpc,               \* position inside ListOfItems.run_validation
    li,                \* the item the current loop is at (1-based)
    fake_config,       \* fake_config.data, in fake_keys order
    fake_path,         \* fake_config.config_file_path
    calls,             \* every call made on an option, in order
    sub_option,        \* a SubConfig option: _make_config, _do_validation, warnings
    sub_call,          \* its last run_validation call: input, nested result, outcome
    dep_option,        \* a Deprecated option: moved_to, removed, warnings
    dep_raw,           \* the document Deprecated.pre_validation was given
    dep_config,        \* that document, as pre_validation rewrites it
    dep_frame,         \* position inside Deprecated.pre_validation
    sd_config,         \* a config's docs_dir and site_dir, validated
    sd_result,         \* what SiteDir.post_validation did
    pl_option,         \* a Plugins or MarkdownExtensions option
    pl_raw,            \* the raw value as loaded (kept to state the claims)
    pl_value,          \* the raw value object run_validation is given
    pl_frame,          \* position inside run_validation, and its last outcome
    pl_log,            \* the plugins instantiated, in order
    hk_config,         \* a config's plugins collection and hooks
    hk_frame,          \* position inside the Hooks option's methods
    fs_option,         \* a FilesystemObject option: exists, config_dir
    fs_call,           \* its run_validation calls: input and outcome
    ch_option,         \* a Choice option as constructed: choices, default
    ch_call,           \* its last validate call: input and outcome
    lw_option,         \* a ListOfItems option and its item option's warnings
    lw_frame           \* position inside its run_validation

configVars == <<option, raw, data, config_file_path, failed, config_warnings, pc,
                idx, lo_bound, lo_key_name, lpc, li, fake_config, fake_path, calls>>
subVars == <<sub_option, sub_call>>
depVars == <<dep_option, dep_raw, dep_config, dep_frame>>
sdVars == <<sd_config, sd_result>>
plVars == <<pl_option, pl_raw, pl_value, pl_frame, pl_log>>
hkVars == <<hk_config, hk_frame>>
fsVars == <<fs_option, fs_call>>
chVars == <<ch_option, ch_call>>
lwVars == <<lw_option, lw_frame>>
laterVars == <<plVars, hkVars, fsVars, chVars, lwVars>>
vars == <<configVars, subVars, depVars, sdVars, laterVars>>
\* What an action of Config.validate leaves alone.
others == <<subVars, depVars, sdVars, laterVars>>

listVars == <<lo_bound, lo_key_name, lpc, li, fake_config, fake_path>>

Call(fn, site, field, index, value, path) ==
    [fn |-> fn, site |-> site, field |-> field, index |-> index,
     value |-> value, path |-> path]

\* The item option of the list field: Type(int).
ItemOption(self) == [cls |-> "Type", type_ |-> self.type_,
                     default |-> NoneV, required |-> FALSE]

RawLists == {ListV(xs) : xs \in SeqsUpTo(ItemValues, MaxLen)}

\* No SubConfig, Deprecated or SiteDir option is in use.
SubIdle == sub_option = [state |-> "none"] /\ sub_call = [state |-> "none"]
DepIdle ==
    /\ dep_option = [state |-> "none"]
    /\ dep_raw = <<>>
    /\ dep_config = <<>>
    /\ dep_frame = [pc |-> "none"]
SdIdle == sd_config = [state |-> "none"] /\ sd_result = [state |-> "none"]
\* No Config is being validated.
ConfigIdle ==
    /\ option = <<>> /\ raw = <<>> /\ data = <<>> /\ config_file_path = "None"
    /\ failed = <<>> /\ pc = "none" /\ idx = 1 /\ lo_bound = FALSE
    /\ lo_key_name = "" /\ lpc = "none" /\ li = 1 /\ fake_config = <<>>
    /\ fake_path = "None" /\ calls = <<>>
    /\ config_warnings = <<>>
EarlierIdle == ConfigIdle /\ SubIdle /\ DepIdle /\ SdIdle
earlierVars == <<configVars, subVars, depVars, sdVars>>
\* No Plugins, MarkdownExtensions, Hooks, FilesystemObject or Choice option is
\* in use, and no list of sub-configs.
PluginsIdle ==
    /\ pl_option = [cls |-> "none"]
    /\ pl_raw = <<>>
    /\ pl_value = <<>>
    /\ pl_frame = [pc |-> "none"]
    /\ pl_log = <<>>
HooksIdle == hk_config = [state |-> "none"] /\ hk_frame = [pc |-> "none"]
FilesystemIdle == fs_option = [state |-> "none"] /\ fs_call = [state |-> "none"]
ChoiceIdle == ch_option = [state |-> "none"] /\ ch_call = [state |-> "none"]
ListWarningsIdle == lw_option = [state |-> "none"] /\ lw_frame = [pc |-> "none"]
LaterIdle(inUse) ==
    /\ inUse = "Plugins" \/ PluginsIdle
    /\ inUse = "Hooks" \/ HooksIdle
    /\ inUse = "FilesystemObject" \/ FilesystemIdle
    /\ inUse = "Choice" \/ ChoiceIdle
    /\ inUse = "ListOfItems" \/ ListWarningsIdle

ConfigInit ==
    /\ \E d \in {NoneV, StrV("d"), IntV(7)}, r \in BOOLEAN,
          ld \in {NoneV, ListV(<<>>)}, lr \in BOOLEAN :
          option = [f \in Fields |->
              IF f = "site_name"
              THEN [cls |-> "Type", type_ |-> "str", default |-> d, required |-> r]
              ELSE [cls |-> "ListOfItems", type_ |-> "int", default |-> ld,
                    required |-> lr]]
    /\ \E v \in {Missing, NoneV, StrV("s"), IntV(1)},
          l \in {Missing, NoneV, StrV("s")} \cup RawLists,
          extra \in {{}, {"foo", "bar"}} :
          raw = [f \in Fields \cup extra |->
                    IF f = "site_name" THEN v
                    ELSE IF f = "items" THEN l
                    ELSE IntV(1)]
    /\ data = raw
    /\ config_file_path \in {"None", "/a/b/mkdocs.yml"}
    /\ failed = <<>>
    /\ config_warnings = <<>>
    /\ pc = "pre"
    /\ idx = 1
    /\ lo_bound = FALSE
    /\ lo_key_name = ""
    /\ lpc = "idle"
    /\ li = 1
    /\ fake_config = <<>>
    /\ fake_path = "None"
    /\ calls = <<>>

Init == ConfigInit /\ SubIdle /\ DepIdle /\ SdIdle /\ LaterIdle("")

\* ------------------------------------------------------------ Config.validate
\* The pass moves on to the next field, or the next pass starts.
NextPass(p) == IF p = "pre" THEN "run" ELSE IF p = "run" THEN "post" ELSE "done"

\* The warning for a key of the document that the schema does not declare.
Unrecognised(key) == <<key, "Unrecognised configuration name: " \o key>>
\* The orders a set may be iterated in.
Orderings(S) ==
    {order \in [1..Cardinality(S) -> S] : \A k \in S : \E i \in DOMAIN order : order[i] = k}

\* Mutant: the keys the schema does not declare are passed over in silence.
Advance_NoWarnings ==
    /\ config_warnings' = config_warnings
    /\ IF idx < Len(Schema)
       THEN pc' = pc /\ idx' = idx + 1
       ELSE pc' = NextPass(pc) /\ idx' = 1

\* When the last field of the validation pass is done, every key of the
\* document that is not a field of the schema gets its warning.
Advance ==
    IF idx < Len(Schema)
    THEN pc' = pc /\ idx' = idx + 1 /\ config_warnings' = config_warnings
    ELSE /\ pc' = NextPass(pc)
         /\ idx' = 1
         /\ IF pc = "run"
            THEN \E order \in Orderings(DOMAIN data \ Fields) :
                    config_warnings' = config_warnings \o
                        [i \in DOMAIN order |-> Unrecognised(order[i])]
            ELSE config_warnings' = config_warnings

\* Pass 1: option.pre_validation(config, key) for every field in schema
\* order. ListOfItems.pre_validation stores the config and the key name;
\* Type inherits the base class's, which does nothing.
PreValidation ==
    /\ UNCHANGED others
    /\ pc = "pre"
    /\ LET f == Schema[idx] IN
       IF option[f].cls = "ListOfItems"
       THEN lo_bound' = TRUE /\ lo_key_name' = f
       ELSE UNCHANGED <<lo_bound, lo_key_name>>
    /\ Advance
    /\ UNCHANGED <<option, raw, data, config_file_path, failed, lpc, li,
                   fake_config, fake_path, calls>>

\* Pass 2 for a Type field: config[key] = option.validate(config.get(key)),
\* a ValidationError being caught and recorded against the field.
ValidateType ==
    /\ UNCHANGED others
    /\ pc = "run"
    /\ option[Schema[idx]].cls = "Type"
    /\ LET f == Schema[idx]
           r == OptionallyRequired_validate(option[f], Get(data, f))
       IN  /\ calls' = calls \o [k \in 1..Len(r.calls) |->
                   Call("run_validation", "OptionallyRequired.validate", f, 0,
                        r.calls[k], config_file_path)]
           /\ IF r.out.raised
              THEN failed' = Append(failed, <<f, r.out.msg>>) /\ data' = data
              ELSE failed' = failed /\ data' = [data EXCEPT ![f] = r.out.val]
    /\ Advance
    /\ UNCHANGED <<option, raw, config_file_path, listVars>>

\* Pass 2 for the list field: run_validation is entered (ListOfItems has no
\* validate of its own: the base class's calls run_validation on the value).
ListBegin ==
    /\ UNCHANGED others
    /\ pc = "run"
    /\ option[Schema[idx]].cls = "ListOfItems"
    /\ lpc = "idle"
    /\ LET f == Schema[idx]
           e == ListOfItems_enter(option[f], Get(data, f))
       IN  CASE e.kind = "raise" ->
                  /\ failed' = Append(failed, <<f, e.out.msg>>)
                  /\ Advance
                  /\ UNCHANGED <<data, lpc, li, fake_config, fake_path>>
             [] e.kind = "return" ->
                  /\ data' = [data EXCEPT ![f] = e.out.val]
                  /\ Advance
                  /\ UNCHANGED <<failed, lpc, li, fake_config, fake_path>>
             [] OTHER ->
                  /\ fake_config' = e.out.val.items
                  /\ fake_path' = FakeConfigPath(lo_bound, config_file_path)
                  /\ lpc' = "pre"
                  /\ li' = 1
                  /\ UNCHANGED <<data, failed, config_warnings, pc, idx>>
    /\ UNCHANGED <<option, raw, config_file_path, lo_bound, lo_key_name, calls>>

MoveOn(phase) ==
    LET a == AfterItem(phase, li, Len(fake_config))
    IN  lpc' = a.phase /\ li' = a.i

\* self.option_type.pre_validation(fake_config, key_name): Type's does nothing.
ItemPre ==
    /\ UNCHANGED others
    /\ lpc = "pre"
    /\ calls' = Append(calls, Call("pre_validation", "ListOfItems.run_validation",
                                   Schema[idx], li - 1, fake_config[li], fake_path))
    /\ MoveOn("pre")
    /\ UNCHANGED <<option, raw, data, config_file_path, failed, config_warnings,
                   pc, idx, lo_bound, lo_key_name, fake_config, fake_path>>

\* fake_config[key_name] = self.option_type.run_validation(fake_config[key_name]);
\* a ValidationError leaves run_validation and is recorded against the field.
ItemRun ==
    /\ UNCHANGED others
    /\ lpc = "run"
    /\ LET f == Schema[idx]
           r == Type_run_validation(ItemOption(option[f]), fake_config[li])
       IN  /\ calls' = Append(calls, Call("run_validation", "ListOfItems.run_validation",
                                          f, li - 1, fake_config[li], fake_path))
           /\ IF r.raised
              THEN /\ failed' = Append(failed, <<f, r.msg>>)
                   /\ lpc' = "idle"
                   /\ li' = 1
                   /\ Advance
                   /\ UNCHANGED fake_config
              ELSE /\ fake_config' = [fake_config EXCEPT ![li] = r.val]
                   /\ MoveOn("run")
                   /\ UNCHANGED <<failed, config_warnings, pc, idx>>
    /\ UNCHANGED <<option, raw, data, config_file_path, lo_bound, lo_key_name,
                   fake_path>>

\* self.option_type.post_validation(fake_config, key_name): Type's does nothing.
ItemPost ==
    /\ UNCHANGED others
    /\ lpc = "post"
    /\ calls' = Append(calls, Call("post_validation", "ListOfItems.run_validation",
                                   Schema[idx], li - 1, fake_config[li], fake_path))
    /\ MoveOn("post")
    /\ UNCHANGED <<option, raw, data, config_file_path, failed, config_warnings,
                   pc, idx, lo_bound, lo_key_name, fake_config, fake_path>>

\* return [fake_config[k] for k in fake_keys], stored as the field's value.
ListReturn ==
    /\ UNCHANGED others
    /\ lpc = "return"
    /\ data' = [data EXCEPT ![Schema[idx]] = ListOfItems_result(fake_config)]
    /\ lpc' = "idle"
    /\ li' = 1
    /\ Advance
    /\ UNCHANGED <<option, raw, config_file_path, failed, lo_bound, lo_key_name,
                   fake_config, fake_path, calls>>

\* Pass 3: option.post_validation(config, key) for every field that was
\* normalized; Type and ListOfItems inherit the base class's, which does nothing.
PostValidation ==
    /\ UNCHANGED others
    /\ pc = "post"
    /\ Advance
    /\ UNCHANGED <<option, raw, data, config_file_path, failed, listVars, calls>>

Next ==
    \/ PreValidation
    \/ ValidateType
    \/ ListBegin
    \/ ItemPre
    \/ ItemRun
    \/ ItemPost
    \/ ListReturn
    \/ PostValidation

Spec == Init /\ [][Next]_vars

\* ------------------------------------------------------------ properties
\* The errors recorded against field f, in order.
ErrorsFor(f) == SelectSeq(failed, LAMBDA e : e[1] = f)
\* The calls made on the option of field f from the given call site.
CallsAt(f, site) == SelectSeq(calls, LAMBDA c : c.field = f /\ c.site = site)
LacksValue(f) == raw[f] \in {Missing, NoneV}
RequiredNoDefault(f) == option[f].required /\ option[f].default = NoneV
\* Pass 2 is over for field f.
Validated(f) ==
    \/ pc \in {"post", "done"}
    \/ pc = "run" /\ \E k \in 1..(idx - 1) : Schema[k] = f

\* C1: a document that lacks a value (missing or null) for a required field
\* without default gets exactly one error for that field, with the message
\* 'Required configuration not provided.', whatever the other field holds.
C1_MissingRequired ==
    pc = "done" =>
        \A f \in Fields :
            LacksValue(f) /\ RequiredNoDefault(f) =>
                ErrorsFor(f) = << <<f, MissingRequired>> >>

\* The required field is missing while the other field fails on its own.
C1_Witness ==
    /\ pc = "done"
    /\ LacksValue("site_name") /\ RequiredNoDefault("site_name")
    /\ raw["items"] = ListV(<<IntV(1), StrV("a")>>)
    /\ Len(failed) = 2

\* C3 as stated: with the value absent and a default, validate() yields the
\* default and run_validation is not invoked; absent, no default and not
\* required, it yields None and run_validation is not invoked.
C3_Original ==
    Validated("site_name") /\ LacksValue("site_name") =>
        /\ option["site_name"].default # NoneV =>
              /\ data["site_name"] = option["site_name"].default
              /\ CallsAt("site_name", "OptionallyRequired.validate") = <<>>
        /\ option["site_name"].default = NoneV /\ ~option["site_name"].required =>
              /\ data["site_name"] = NoneV
              /\ CallsAt("site_name", "OptionallyRequired.validate") = <<>>

\* C3 amended: with the value absent and a default, validate() passes the
\* default to run_validation (once) and yields what that returns, or fails
\* with its error; absent, no default and not required, it yields None and
\* run_validation is not invoked.
C3_DefaultIsValidated ==
    Validated("site_name") /\ LacksValue("site_name") =>
        LET self == option["site_name"]
            made == CallsAt("site_name", "OptionallyRequired.validate")
        IN  /\ self.default # NoneV =>
                  /\ Len(made) = 1
                  /\ made[1].fn = "run_validation"
                  /\ made[1].value = self.default
                  /\ IF self.default.ty = self.type_
                     THEN /\ data["site_name"] = self.default
                          /\ ErrorsFor("site_name") = <<>>
                     ELSE /\ data["site_name"] = raw["site_name"]
                          /\ ErrorsFor("site_name") =
                                << <<"site_name", TypeMismatch(self.type_, self.default.ty)>> >>
            /\ self.default = NoneV /\ ~self.required =>
                  /\ data["site_name"] = NoneV
                  /\ made = <<>>
                  /\ ErrorsFor("site_name") = <<>>

\* A missing value whose default does not pass the option's own check.
C3_Witness ==
    /\ Validated("site_name")
    /\ raw["site_name"] = Missing
    /\ option["site_name"].default = IntV(7)
    /\ ErrorsFor("site_name") # <<>>

\* C4 as stated: no call of run_validation, from any call site, passes None.
C4_Original ==
    \A k \in 1..Len(calls) :
        calls[k].fn = "run_validation" => calls[k].value # NoneV

\* C4 amended: a call of run_validation made by OptionallyRequired.validate
\* never passes None; ListOfItems.run_validation passes every raw item to
\* the item option's run_validation as it is, a null item included.
C4_NonNullFromValidate ==
    \A k \in 1..Len(calls) :
        calls[k].fn = "run_validation" =>
            IF calls[k].site = "OptionallyRequired.validate"
            THEN calls[k].value # NoneV
            ELSE /\ raw[calls[k].field].ty = "list"
                 /\ calls[k].value = raw[calls[k].field].items[calls[k].index + 1]

\* The item option's run_validation is given a null item, after validate()
\* of the other field has passed a default on.
C4_Witness ==
    /\ \E k \in 1..Len(calls) :
          /\ calls[k].fn = "run_validation"
          /\ calls[k].site = "ListOfItems.run_validation"
          /\ calls[k].value = NoneV
    /\ \E k \in 1..Len(calls) :
          /\ calls[k].site = "OptionallyRequired.validate"
          /\ raw[calls[k].field] = NoneV

\* The calls ListOfItems.run_validation made on its item option, as
\* (function, item index) pairs.
ItemCalls ==
    LET cs == CallsAt("items", "ListOfItems.run_validation")
    IN  [k \in 1..Len(cs) |-> <<cs[k].fn, cs[k].index>>]
PhaseName(p) ==
    IF p = 0 THEN "pre_validation" ELSE IF p = 1 THEN "run_validation"
    ELSE "post_validation"
\* Three full passes over n items, each in index order.
ThreePasses(n) ==
    [k \in 1..(3 * n) |-> <<PhaseName((k - 1) \div n), (k - 1) % n>>]
IsPrefix(a, b) == Len(a) <= Len(b) /\ \A k \in 1..Len(a) : a[k] = b[k]
RawItems == IF raw["items"].ty = "list" THEN raw["items"].items ELSE <<>>
\* The first item (1-based) that Type(int) rejects, 0 when there is none.
IsBadItem(v) == v.ty # option["items"].type_
FirstBad ==
    IF \E k \in 1..Len(RawItems) : IsBadItem(RawItems[k])
    THEN CHOOSE k \in 1..Len(RawItems) :
            /\ IsBadItem(RawItems[k])
            /\ \A j \in 1..(k - 1) : ~IsBadItem(RawItems[j])
    ELSE 0

\* C2: on a non-empty list the item option's phases run as three full passes
\* in index order (every pre_validation before any run_validation, every
\* run_validation before any post_validation), the config the item option
\* sees carries the parent's config_file_path, and once run_validation of an
\* item raises, post_validation is called for no item.
C2_ThreePasses ==
    /\ IsPrefix(ItemCalls, ThreePasses(Len(RawItems)))
    /\ \A k \in 1..Len(calls) :
          calls[k].site = "ListOfItems.run_validation" =>
              calls[k].path = config_file_path
    /\ Validated("items") /\ Len(RawItems) > 0 =>
          IF FirstBad = 0
          THEN ItemCalls = ThreePasses(Len(RawItems))
          ELSE /\ ErrorsFor("items") # <<>>
               /\ \A k \in 1..Len(ItemCalls) : ItemCalls[k][1] # "post_validation"

\* A list of three valid items went through all three passes, under a config
\* that has a file path.
C2_Witness ==
    /\ pc = "done"
    /\ Len(RawItems) = 3
    /\ ErrorsFor("items") = <<>>
    /\ config_file_path # "None"
    /\ Len(ItemCalls) = 9

\* C5: given a list, run_validation returns a list of the same length whose
\* i-th element is the item option's normalized value of the i-th raw item,
\* or raises a ValidationError; it raises when the value is not a list (the
\* message names the received type) and when an item fails; the empty list
\* is returned as it is, no phase of the item option being called.
C5_ListResult ==
    Validated("items") =>
        /\ raw["items"].ty = "list" /\ FirstBad = 0 =>
              /\ ErrorsFor("items") = <<>>
              /\ data["items"].ty = "list"
              /\ Len(data["items"].items) = Len(RawItems)
              /\ \A i \in 1..Len(RawItems) :
                    /\ data["items"].items[i].ty = option["items"].type_
                    /\ data["items"].items[i] = RawItems[i]
        /\ raw["items"].ty = "list" /\ FirstBad # 0 =>
              /\ Len(ErrorsFor("items")) = 1
              /\ data["items"] = raw["items"]
        /\ raw["items"].ty \notin {"list", "NoneType", "<missing>"} =>
              /\ ErrorsFor("items") = << <<"items", NotAList(raw["items"].ty)>> >>
              /\ data["items"] = raw["items"]
        /\ raw["items"] = ListV(<<>>) =>
              /\ data["items"] = ListV(<<>>)
              /\ ItemCalls = <<>>

\* A list of three valid items has been normalized.
C5_Witness ==
    /\ pc = "done"
    /\ raw["items"] = ListV(<<IntV(1), IntV(3), IntV(1)>>)
    /\ data["items"] = raw["items"]
    /\ Len(ItemCalls) = 9

Digits == <<"0", "1", "2", "3", "4", "5", "6", "7", "8", "9">>
\* f'{parent_key_name}[{i}]', the key of item i in fake_config.
FakeKey(parent_key_name, i) == parent_key_name \o "[" \o Digits[i + 1] \o "]"
RunIndices == {ItemCalls[k][2] : k \in {j \in 1..Len(ItemCalls) :
                                          ItemCalls[j][1] = "run_validation"}}

MaxNested == 2

DictV == [ty |-> "dict", n |-> 0, s |-> "", items |-> <<>>]
\* The Config object run_validation builds: an instance of the Config
\* subclass it was given, or a LegacyConfig over the given options.
ConfigV(cls) == [ty |-> "Config", n |-> 0, s |-> cls, items |-> <<>>]

NestedKeys == {"a", "b"}
\* What config.validate() of the nested config may return: (key, message) pairs.
NestedFailed == SeqsUpTo({<<k, "Expected type" >> : k \in NestedKeys}, MaxNested)
NestedWarnings == SeqsUpTo({<<k, "deprecated" >> : k \in NestedKeys}, MaxNested)

SubOptionError(key, err) ==
    "Sub-option '" \o key \o "' configuration error: " \o err
\* str(e) of the ConfigurationError load_dict raises for a value that is no mapping.
LoadDictError(received) ==
    "The configuration is invalid. Expected a key-value mapping (dict) but received: <class '"
        \o received \o "'>"

\* Mutant of __init__: validate=None is not turned into True for a Config subclass.
SubConfig_do_validation_NoDefault(from_class, validate) == validate = "True"

\* __init__: self._do_validation, from how the option is built (a Config
\* subclass, or legacy option definitions) and the validate argument.
SubConfig_do_validation(from_class, validate) ==
    LET v == IF from_class /\ validate = "None" THEN "True" ELSE validate
    IN  v = "True"

SubConfig_init(from_class, validate, warnings) ==
    [from_class |-> from_class, validate |-> validate,
     do_validation |-> SubConfig_do_validation(from_class, validate),
     warnings |-> warnings]

\* run_validation(value), config.validate() having returned `nested`: the
\* outcome and the option's warnings afterwards.
SubConfig_run_validation(self, value, nested) ==
    LET config == ConfigV(IF self.from_class THEN "Config subclass" ELSE "LegacyConfig")
    IN  IF value.ty # "dict"
        THEN [out |-> Raise(LoadDictError(value.ty)), warnings |-> self.warnings]
        ELSE IF self.do_validation
             THEN [out |-> IF nested.failed # <<>>
                           THEN Raise(SubOptionError(nested.failed[1][1], nested.failed[1][2]))
                           ELSE Return(config),
                   warnings |-> nested.warnings]
             ELSE [out |-> Return(config), warnings |-> self.warnings]

NoCall == [state |-> "none", value |-> NoneV,
           nested |-> [failed |-> <<>>, warnings |-> <<>>],
           before |-> <<>>, out |-> Return(NoneV)]

SubConfigInit ==
    /\ \E from_class \in BOOLEAN, validate \in {"None", "True", "False"},
          w \in {<<>>, << <<"a", "earlier">> >>} :
          sub_option = SubConfig_init(from_class, validate, w)
    /\ sub_call = NoCall
    /\ option = <<>> /\ raw = <<>> /\ data = <<>> /\ config_file_path = "None"
    /\ failed = <<>> /\ pc = "none" /\ idx = 1 /\ lo_bound = FALSE
    /\ lo_key_name = "" /\ lpc = "none" /\ li = 1 /\ fake_config = <<>>
    /\ fake_path = "None" /\ calls = <<>>
    /\ config_warnings = <<>>
    /\ DepIdle /\ SdIdle /\ LaterIdle("")

\* One call of run_validation on the option as built.
SubConfigRunValidation ==
    /\ sub_call.state = "none"
    /\ \E value \in {DictV, NoneV, StrV("s"), ListV(<<>>)},
          f \in NestedFailed, w \in NestedWarnings :
          LET nested == [failed |-> f, warnings |-> w]
              r == SubConfig_run_validation(sub_option, value, nested)
          IN  /\ sub_call' = [state |-> "done", value |-> value, nested |-> nested,
                              before |-> sub_option.warnings, out |-> r.out]
              /\ sub_option' = [sub_option EXCEPT !.warnings = r.warnings]
    /\ UNCHANGED <<configVars, depVars, sdVars, laterVars>>

SubConfigNext == SubConfigRunValidation

SpecSubConfig == SubConfigInit /\ [][SubConfigNext]_vars

\* C7: built from a Config subclass without a validate argument, a nested
\* field failure makes run_validation raise and the nested warnings become
\* the option's; built from legacy definitions without a validate argument,
\* nested failures and warnings are swallowed (nothing raised, the option's
\* warnings unchanged); an explicit validate argument overrides both
\* defaults; and what run_validation returns is the nested Config object.
C7_SubConfigPropagation ==
    sub_call.state = "done" =>
        LET strict == IF sub_option.validate = "None"
                      THEN sub_option.from_class
                      ELSE sub_option.validate = "True"
            nested == sub_call.nested
        IN  /\ sub_call.value.ty = "dict" /\ strict =>
                  /\ sub_option.warnings = nested.warnings
                  /\ sub_call.out.raised <=> nested.failed # <<>>
                  /\ sub_call.out.raised =>
                        sub_call.out.msg =
                            SubOptionError(nested.failed[1][1], nested.failed[1][2])
            /\ sub_call.value.ty = "dict" /\ ~strict =>
                  /\ ~sub_call.out.raised
                  /\ sub_option.warnings = sub_call.before
            /\ ~sub_call.out.raised => sub_call.out.val.ty = "Config"

\* A legacy SubConfig that holds a warning swallows a nested failure.
C7_Witness ==
    /\ sub_call.state = "done"
    /\ ~sub_option.from_class /\ sub_option.validate = "None"
    /\ sub_call.value = DictV
    /\ Len(sub_call.nested.failed) = 2 /\ Len(sub_call.nested.warnings) = 1
    /\ sub_call.before # <<>>
    /\ ~sub_call.out.raised

\* ------------------------------------------------------------ Deprecated
\* Longest replacement path (the keys of moved_to.split('.')).
MaxPath == 3

\* The raw document is a tree of mappings. It is kept as a function from key
\* paths to what the path holds: "<missing>", "None", "dict" (a mapping, its
\* entries being the paths below it) or a scalar ("5", "7").
KeyName == "old_key"
\* The keys a replacement path is made of, outermost first.
Chain == <<"new", "key", "sub", "leaf", "tip">>
ChainPath(k) == SubSeq(Chain, 1, k)
\* The paths a document may hold: the deprecated key, the replacement path's
\* levels, and at every level a key the option has nothing to do with.
DocPaths ==
    {<<KeyName>>} \cup {ChainPath(k) : k \in 1..MaxPath}
                  \cup {Append(ChainPath(k - 1), "other") : k \in 1..MaxPath}
Parent(p) == SubSeq(p, 1, Len(p) - 1)
IsBelow(p, q) == Len(p) > Len(q) /\ SubSeq(p, 1, Len(q)) = q
WellFormed(doc) ==
    \A p \in DocPaths : Len(p) > 1 /\ doc[p] # "<missing>" => doc[Parent(p)] = "dict"
Documents ==
    {doc \in [DocPaths -> {"<missing>", "None", "dict", "5", "7"}] :
        /\ WellFormed(doc)
        /\ doc[<<KeyName>>] \in {"<missing>", "None", "5"}
        /\ \A p \in DocPaths \ {<<KeyName>>} :
              /\ doc[p] # "5"
              /\ p[Len(p)] = "other" => doc[p] \in {"<missing>", "7"}}

\* target.get(key) is None
IsNone(doc, p) == doc[p] \in {"<missing>", "None"}

RECURSIVE Join(_)
\* '.'.join(keys)
Join(keys) ==
    IF Len(keys) = 1 THEN keys[1] ELSE keys[1] \o "." \o Join(Tail(keys))

\* self.message.format(key_name), the message being the one __init__ builds.
DeprecatedMessage(self, key_name) ==
    (IF self.removed
     THEN "The configuration option '" \o key_name \o "' was removed from MkDocs."
     ELSE "The configuration option '" \o key_name \o "' has been deprecated and "
              \o "will be removed in a future release of MkDocs.")
    \o (IF self.moved_to # <<>>
        THEN " Use '" \o Join(self.moved_to) \o "' instead."
        ELSE "")

\* pre_validation up to the loop: what it does for the value of the key.
Deprecated_begin(self, doc) ==
    IF IsNone(doc, <<KeyName>>) THEN "return"
    ELSE IF self.removed THEN "raise"
    ELSE IF self.moved_to = <<>> THEN "warn"
    ELSE "warn and move"

\* Mutant of the loop body: whatever is no mapping is replaced by {}.
Deprecated_descend_Overwrite(doc, target, key) ==
    LET p == Append(target, key)
        d == IF doc[p] # "dict" THEN [doc EXCEPT ![p] = "dict"] ELSE doc
    IN  [doc |-> d, target |-> p, abort |-> FALSE]

\* One iteration of "for key in parent_keys": a missing or null level is
\* created, target moves into it, and a level that is no dict ends the call.
Deprecated_descend(doc, target, key) ==
    LET p == Append(target, key)
        d == IF IsNone(doc, p) THEN [doc EXCEPT ![p] = "dict"] ELSE doc
    IN  [doc |-> d, target |-> p, abort |-> d[p] # "dict"]

\* Mutant of the move: the value is read with get(), not popped.
Deprecated_move_NoPop(doc, target, target_key, key_name) ==
    LET p == Append(target, target_key)
    IN  [q \in DocPaths |->
            IF q = p THEN doc[<<key_name>>]
            ELSE IF IsBelow(q, p) THEN "<missing>"
            ELSE doc[q]]

\* target[target_key] = config.pop(key_name): whatever the target key held,
\* entries below it included, is replaced by the value.
Deprecated_move(doc, target, target_key, key_name) ==
    LET p == Append(target, target_key)
    IN  [q \in DocPaths |->
            IF q = p THEN doc[<<key_name>>]
            ELSE IF q = <<key_name>> \/ IsBelow(q, p) THEN "<missing>"
            ELSE doc[q]]

DeprecatedInit ==
    /\ \E k \in 0..MaxPath, removed \in BOOLEAN,
          w \in {<<>>, <<"earlier warning">>} :
          dep_option = [moved_to |-> ChainPath(k), removed |-> removed,
                        warnings |-> w]
    /\ dep_raw \in Documents
    /\ dep_config = dep_raw
    /\ dep_frame = [pc |-> "call", target |-> <<>>, i |-> 1,
                    before |-> dep_option.warnings, msg |-> ""]
    /\ option = <<>> /\ raw = <<>> /\ data = <<>> /\ config_file_path = "None"
    /\ failed = <<>> /\ pc = "none" /\ idx = 1 /\ lo_bound = FALSE
    /\ lo_key_name = "" /\ lpc = "none" /\ li = 1 /\ fake_config = <<>>
    /\ fake_path = "None" /\ calls = <<>>
    /\ config_warnings = <<>>
    /\ SubIdle /\ SdIdle /\ LaterIdle("")

\* pre_validation(config, key_name), lines 308-317: the wrapped option's
\* pre_validation (the base class's, which does nothing), then the value.
DeprecatedBegin ==
    /\ dep_frame.pc = "call"
    /\ LET todo == Deprecated_begin(dep_option, dep_config)
           msg == DeprecatedMessage(dep_option, KeyName)
       IN  CASE todo = "return" ->
                  /\ dep_frame' = [dep_frame EXCEPT !.pc = "returned"]
                  /\ UNCHANGED dep_option
             [] todo = "raise" ->
                  /\ dep_frame' = [dep_frame EXCEPT !.pc = "raised", !.msg = msg]
                  /\ UNCHANGED dep_option
             [] todo = "warn" ->
                  /\ dep_option' = [dep_option EXCEPT
                                        !.warnings = Append(@, msg)]
                  /\ dep_frame' = [dep_frame EXCEPT !.pc = "returned"]
             [] OTHER ->
                  /\ dep_option' = [dep_option EXCEPT
                                        !.warnings = Append(@, msg)]
                  /\ dep_frame' = [dep_frame EXCEPT !.pc = "loop"]
    /\ UNCHANGED <<dep_raw, dep_config, configVars, subVars, sdVars, laterVars>>

\* One iteration of the loop over parent_keys, lines 319-326.
DeprecatedDescend ==
    /\ dep_frame.pc = "loop"
    /\ dep_frame.i < Len(dep_option.moved_to)
    /\ LET r == Deprecated_descend(dep_config, dep_frame.target,
                                   dep_option.moved_to[dep_frame.i])
       IN  /\ dep_config' = r.doc
           /\ dep_frame' = [dep_frame EXCEPT
                                !.pc = IF r.abort THEN "returned" ELSE "loop",
                                !.target = r.target,
                                !.i = @ + 1]
    /\ UNCHANGED <<dep_option, dep_raw, configVars, subVars, sdVars, laterVars>>

\* After the loop, line 328.
DeprecatedMove ==
    /\ dep_frame.pc = "loop"
    /\ dep_frame.i = Len(dep_option.moved_to)
    /\ dep_config' = Deprecated_move(dep_config, dep_frame.target,
                                     dep_option.moved_to[dep_frame.i], KeyName)
    /\ dep_frame' = [dep_frame EXCEPT !.pc = "returned"]
    /\ UNCHANGED <<dep_option, dep_raw, configVars, subVars, sdVars, laterVars>>

DeprecatedNext == DeprecatedBegin \/ DeprecatedDescend \/ DeprecatedMove

SpecDeprecated == DeprecatedInit /\ [][DeprecatedNext]_vars

\* pre_validation is over (it returned or raised).
DepOver == dep_frame.pc \in {"returned", "raised"}
DepNonNull == dep_raw[<<KeyName>>] \notin {"<missing>", "None"}
MovedTo == dep_option.moved_to
\* Some intermediate level of the replacement path holds a value (not null)
\* that is no mapping.
Blocked ==
    \E k \in 1..(Len(MovedTo) - 1) :
        dep_raw[SubSeq(MovedTo, 1, k)] \notin {"<missing>", "None", "dict"}
OneWarning ==
    dep_option.warnings =
        Append(dep_frame.before, DeprecatedMessage(dep_option, KeyName))
\* The value has been moved: the key is gone, the replacement location holds
\* the value inside mappings, and every other entry is as it was.
Moved ==
    /\ dep_config[<<KeyName>>] = "<missing>"
    /\ dep_config[MovedTo] = dep_raw[<<KeyName>>]
    /\ \A k \in 1..(Len(MovedTo) - 1) : dep_config[SubSeq(MovedTo, 1, k)] = "dict"
    /\ \A p \in DocPaths :
          /\ p # <<KeyName>>
          /\ \A k \in 1..Len(MovedTo) : p # SubSeq(MovedTo, 1, k)
          /\ ~IsBelow(p, MovedTo)
          => dep_config[p] = dep_raw[p]
NullOrRemoved ==
    /\ ~DepNonNull =>
          /\ dep_frame.pc = "returned"
          /\ dep_config = dep_raw
          /\ dep_option.warnings = dep_frame.before
    /\ DepNonNull /\ dep_option.removed =>
          /\ dep_frame.pc = "raised"
          /\ dep_frame.msg = DeprecatedMessage(dep_option, KeyName)
          /\ dep_config = dep_raw
          /\ dep_option.warnings = dep_frame.before

\* C8 as stated: with moved_to set and removed=False, a non-null value of the
\* deprecated key is always moved to the replacement location and one warning
\* appended; a null value moves nothing and warns of nothing; removed=True
\* with a non-null value raises and moves nothing.
C8_Original ==
    DepOver =>
        /\ MovedTo # <<>> /\ ~dep_option.removed /\ DepNonNull =>
              dep_frame.pc = "returned" /\ Moved /\ OneWarning
        /\ NullOrRemoved

\* C8 amended: the same, unless an intermediate level of the replacement path
\* holds a non-null value that is not a mapping (then nothing is moved).
C8_MovedUnlessBlocked ==
    DepOver =>
        /\ MovedTo # <<>> /\ ~dep_option.removed /\ DepNonNull /\ ~Blocked =>
              dep_frame.pc = "returned" /\ Moved /\ OneWarning
        /\ NullOrRemoved

\* {"old_key": 5} with moved_to="new.key" has become {"new": {"key": 5}}.
C8_Witness ==
    /\ dep_frame.pc = "returned"
    /\ MovedTo = <<"new", "key">>
    /\ dep_raw = [p \in DocPaths |-> IF p = <<KeyName>> THEN "5" ELSE "<missing>"]
    /\ dep_config = [p \in DocPaths |->
                        IF p = <<"new">> THEN "dict"
                        ELSE IF p = <<"new", "key">> THEN "5"
                        ELSE "<missing>"]
    /\ Len(dep_option.warnings) = Len(dep_frame.before) + 1

\* C9: when an intermediate level of the replacement path holds a value that
\* is not a mapping, pre_validation returns without raising, the deprecated
\* key keeps its value, nothing is written at the replacement location, no
\* other entry of the document is created or changed, and the deprecation
\* warning is still appended.
C9_AbortedMoveChangesNothing ==
    DepOver /\ MovedTo # <<>> /\ ~dep_option.removed /\ DepNonNull /\ Blocked =>
        /\ dep_frame.pc = "returned"
        /\ dep_config = dep_raw
        /\ OneWarning

\* The second level of a three-level replacement path holds a scalar.
C9_Witness ==
    /\ dep_frame.pc = "returned"
    /\ Len(MovedTo) = 3
    /\ DepNonNull /\ ~dep_option.removed
    /\ dep_raw[SubSeq(MovedTo, 1, 1)] = "dict"
    /\ dep_raw[SubSeq(MovedTo, 1, 2)] = "7"
    /\ dep_frame.i = 3

\* ------------------------------------------------------------ SiteDir
\* Longest path, in characters.
MaxPathLen == 4

\* A path is the sequence of its characters; os.sep is "/".
Sep == "/"
PathChars == {Sep, "x", "y"}
\* What os.path.abspath returns: absolute, no empty component, no trailing
\* separator (the root apart).
IsNormalizedAbsolute(p) ==
    /\ Len(p) >= 1
    /\ p[1] = Sep
    /\ Len(p) > 1 => p[Len(p)] # Sep
    /\ \A i \in 1..(Len(p) - 1) : ~(p[i] = Sep /\ p[i + 1] = Sep)
NormalizedPaths ==
    {p \in SeqsUpTo(PathChars, MaxPathLen) : IsNormalizedAbsolute(p)}

RECURSIVE Text(_)
\* The path as text, for a message.
Text(p) == IF p = <<>> THEN "" ELSE p[1] \o Text(Tail(p))

RECURSIVE RStrip(_, _)
\* str.rstrip(c)
RStrip(p, c) ==
    IF p # <<>> /\ p[Len(p)] = c THEN RStrip(SubSeq(p, 1, Len(p) - 1), c) ELSE p
\* str.startswith(prefix)
StartsWith(p, prefix) ==
    Len(prefix) <= Len(p) /\ SubSeq(p, 1, Len(prefix)) = prefix

DocsWithinSite(site_dir, docs_dir) ==
    "The 'docs_dir' should not be within the 'site_dir' as this "
        \o "can mean the source files are overwritten by the output or "
        \o "it will be deleted if --clean is passed to mkdocs build. "
        \o "(site_dir: '" \o Text(site_dir) \o "', docs_dir: '" \o Text(docs_dir) \o "')"
SiteWithinDocs(site_dir, docs_dir) ==
    "The 'site_dir' should not be within the 'docs_dir' as this "
        \o "leads to the build directory being copied into itself and "
        \o "duplicate nested files in the 'site_dir'. "
        \o "(site_dir: '" \o Text(site_dir) \o "', docs_dir: '" \o Text(docs_dir) \o "')"

\* Mutant: the prefixes are compared without the separator appended.
SiteDir_post_validation_NoSep(docs_dir, site_dir) ==
    IF StartsWith(docs_dir, RStrip(site_dir, Sep))
    THEN Raise(DocsWithinSite(site_dir, docs_dir))
    ELSE IF StartsWith(site_dir, RStrip(docs_dir, Sep))
         THEN Raise(SiteWithinDocs(site_dir, docs_dir))
         ELSE Return(NoneV)

\* SiteDir.post_validation, after the inherited post_validation (the base
\* class's, which does nothing).
SiteDir_post_validation(docs_dir, site_dir) ==
    IF StartsWith(docs_dir \o <<Sep>>, RStrip(site_dir, Sep) \o <<Sep>>)
    THEN Raise(DocsWithinSite(site_dir, docs_dir))
    ELSE IF StartsWith(site_dir \o <<Sep>>, RStrip(docs_dir, Sep) \o <<Sep>>)
         THEN Raise(SiteWithinDocs(site_dir, docs_dir))
         ELSE Return(NoneV)

SiteDirInit ==
    /\ \E d \in NormalizedPaths, s \in NormalizedPaths :
          sd_config = [docs_dir |-> d, site_dir |-> s]
    /\ sd_result = [state |-> "none", out |-> Return(NoneV)]
    /\ option = <<>> /\ raw = <<>> /\ data = <<>> /\ config_file_path = "None"
    /\ failed = <<>> /\ pc = "none" /\ idx = 1 /\ lo_bound = FALSE
    /\ lo_key_name = "" /\ lpc = "none" /\ li = 1 /\ fake_config = <<>>
    /\ fake_path = "None" /\ calls = <<>>
    /\ config_warnings = <<>>
    /\ SubIdle /\ DepIdle /\ LaterIdle("")

\* post_validation(config, 'site_dir') on a config whose two directories
\* have been normalized.
SiteDirPostValidation ==
    /\ sd_result.state = "none"
    /\ sd_result' = [state |-> "done",
                     out |-> SiteDir_post_validation(sd_config.docs_dir,
                                                     sd_config.site_dir)]
    /\ UNCHANGED <<sd_config, configVars, subVars, depVars, laterVars>>

SiteDirNext == SiteDirPostValidation

SpecSiteDir == SiteDirInit /\ [][SiteDirNext]_vars

RECURSIVE Components(_)
\* The names a path is made of: "/x/yx" is <<"x", "yx">> (as character
\* sequences), "/" is <<>>.
Components(p) ==
    IF p = <<>> THEN <<>>
    ELSE IF p[1] = Sep THEN Components(Tail(p))
    ELSE LET stops == {i \in 1..Len(p) : p[i] = Sep}
             n == IF stops = {} THEN Len(p) + 1
                  ELSE CHOOSE i \in stops : \A j \in stops : i <= j
         IN  <<SubSeq(p, 1, n - 1)>> \o Components(SubSeq(p, n, Len(p)))
\* Directory a is directory b or lies inside it.
Within(a, b) == IsPrefix(Components(b), Components(a))

\* C10: post_validation raises exactly when one directory is the other or is
\* nested in it at a path-component boundary; with docs_dir within site_dir
\* the message says so, with site_dir strictly within docs_dir it says the
\* complementary thing, and both messages name the two paths.
C10_NoNestedDirs ==
    sd_result.state = "done" =>
        LET docs == sd_config.docs_dir
            site == sd_config.site_dir
        IN  /\ sd_result.out.raised <=> (Within(docs, site) \/ Within(site, docs))
            /\ Within(docs, site) =>
                  sd_result.out.msg = DocsWithinSite(site, docs)
            /\ Within(site, docs) /\ ~Within(docs, site) =>
                  sd_result.out.msg = SiteWithinDocs(site, docs)

\* docs_dir="/x", site_dir="/x/y".
C10_Witness ==
    /\ sd_result.state = "done"
    /\ sd_config.docs_dir = <<"/", "x">>
    /\ sd_config.site_dir = <<"/", "x", "/", "y">>
    /\ sd_result.out.raised

\* ============================================================ Plugins
\* The list a plugins document may hold, the runs of run_validation on one
\* option instance.
MaxItems == 2
MaxRuns == 2

\* What get_plugins() found installed: for each name the class its entry point
\* loads; base: it is a subclass of BasePlugin; hooks: it declares on_startup
\* or on_shutdown.
installed_plugins ==
    [n \in {"search", "plain", "odd"} |->
        [base |-> n # "odd", hooks |-> n = "search"]]

\* An item of the raw list: a name, a mapping (its entries in insertion order,
\* each a key and the kind of configuration under it: None, a non-empty dict,
\* or a string) or a number.
StrItem(x) == [ty |-> "str", s |-> x, entries |-> <<>>]
DictItem(es) == [ty |-> "dict", s |-> "", entries |-> es]
IntItem == [ty |-> "int", s |-> "5", entries |-> <<>>]
Entry(k, c) == [key |-> k, cfg |-> c]

PluginItems ==
    {StrItem(n) : n \in {"search", "plain", "odd", "ghost"}}
    \cup {DictItem(<<Entry(n, c)>>) :
            n \in {"search", "plain"}, c \in {"None", "dict", "str"}}
    \cup {DictItem(<<>>), DictItem(<<Entry("search", "dict"), Entry("plain", "None")>>),
          IntItem}

\* The raw value: a list of items, a mapping of name to configuration, or
\* something that is neither.
ListValue(xs) == [ty |-> "list", items |-> xs]
DictValue(es) == [ty |-> "dict", items |-> es]
PluginValues ==
    {ListValue(xs) : xs \in SeqsUpTo(PluginItems, MaxItems)}
    \cup {DictValue(es) : es \in {<<>>, <<Entry("search", "dict")>>,
                                  <<Entry("plain", "None"), Entry("ghost", "None")>>}}
    \cup {[ty |-> "str", items |-> <<>>]}

\* What plugin.load_config(config, config_file_path) may answer: the errors
\* as (key, message) pairs, and the warnings.
LoadConfigResults ==
    {[errors |-> <<>>, warnings |-> <<>>],
     [errors |-> <<>>, warnings |-> <<"w1">>],
     [errors |-> << <<"k", "bad">> >>, warnings |-> <<"w1">>],
     [errors |-> << <<"k", "bad">>, <<"j", "odd">> >>, warnings |-> <<>>]}

\* The outcome of a call: a return, a ValidationError or another exception.
Returned(p) == [kind |-> "return", msg |-> "", plugin |-> p]
Raised(m) == [kind |-> "ValidationError", msg |-> m, plugin |-> 0]
Escaped(exc, m) == [kind |-> exc, msg |-> m, plugin |-> 0]

NotAValidName(name) == "'" \o name \o "' is not a valid plugin name."
NotInstalled(name) == "The \"" \o name \o "\" plugin is not installed"
InvalidOptions(name) == "Invalid config options for the '" \o name \o "' plugin."
NotASubclass(name) == name \o " must be a subclass of mkdocs.plugins.BasePlugin"
PluginError(name, e) ==
    "Plugin '" \o name \o "' value: '" \o e[1] \o "'. Error: " \o e[2]
RECURSIVE ErrorsMessage(_, _)
ErrorsMessage(name, errors) ==
    IF errors = <<>> THEN ""
    ELSE IF Len(errors) = 1 THEN PluginError(name, errors[1])
    ELSE PluginError(name, errors[1]) \o "\n" \o ErrorsMessage(name, Tail(errors))

\* What load_plugin did: its outcome, the cache and the warnings it leaves,
\* whether it instantiated the plugin class, whether load_config was called.
Loaded(out, cache, warnings, made, configured) ==
    [out |-> out, plugin_cache |-> cache, warnings |-> warnings,
     made |-> made, configured |-> configured]

\* Mutants of load_plugin: every instance is cached, whatever it declares;
\* the warnings are taken only from a load_config that reported no error.
Plugins_load_plugin_CacheAll(self, name, config, fresh, result) ==
    LET keep(m) == Loaded(Raised(m), self.plugin_cache, self.warnings, FALSE, FALSE)
    IN  IF name.ty # "str" THEN keep(NotAValidName(name.s))
        ELSE IF name.s \notin DOMAIN installed_plugins THEN keep(NotInstalled(name.s))
        ELSE IF config = "str" THEN keep(InvalidOptions(name.s))
        ELSE LET cached == self.plugin_cache[name.s] # 0
                 Plugin == installed_plugins[name.s]
             IN  IF ~cached /\ ~Plugin.base THEN keep(NotASubclass(name.s))
                 ELSE LET plugin == IF cached THEN self.plugin_cache[name.s] ELSE fresh
                          cache == [self.plugin_cache EXCEPT ![name.s] = plugin]
                          errors_message == ErrorsMessage(name.s, result.errors)
                      IN  Loaded(IF errors_message # "" THEN Raised(errors_message)
                                 ELSE Returned(plugin),
                                 cache, self.warnings \o result.warnings, ~cached, TRUE)

Plugins_load_plugin_WarningsLast(self, name, config, fresh, result) ==
    LET keep(m) == Loaded(Raised(m), self.plugin_cache, self.warnings, FALSE, FALSE)
    IN  IF name.ty # "str" THEN keep(NotAValidName(name.s))
        ELSE IF name.s \notin DOMAIN installed_plugins THEN keep(NotInstalled(name.s))
        ELSE IF config = "str" THEN keep(InvalidOptions(name.s))
        ELSE LET cached == self.plugin_cache[name.s] # 0
                 Plugin == installed_plugins[name.s]
             IN  IF ~cached /\ ~Plugin.base THEN keep(NotASubclass(name.s))
                 ELSE LET plugin == IF cached THEN self.plugin_cache[name.s] ELSE fresh
                          cache == IF ~cached /\ Plugin.hooks
                                   THEN [self.plugin_cache EXCEPT ![name.s] = plugin]
                                   ELSE self.plugin_cache
                          errors_message == ErrorsMessage(name.s, result.errors)
                      IN  IF errors_message # ""
                          THEN Loaded(Raised(errors_message), cache, self.warnings,
                                      ~cached, TRUE)
                          ELSE Loaded(Returned(plugin), cache,
                                      self.warnings \o result.warnings, ~cached, TRUE)

\* load_plugin(name, config): name is the item or key, config the kind of
\* configuration given for it ("None" also stands for the {} a bare name
\* gets), fresh the instance Plugin() would make, result what the plugin's
\* load_config answers.
Plugins_load_plugin(self, name, config, fresh, result) ==
    LET keep(m) == Loaded(Raised(m), self.plugin_cache, self.warnings, FALSE, FALSE)
    IN  IF name.ty # "str" THEN keep(NotAValidName(name.s))
        ELSE IF name.s \notin DOMAIN installed_plugins THEN keep(NotInstalled(name.s))
        ELSE IF config = "str" THEN keep(InvalidOptions(name.s))
        ELSE LET cached == self.plugin_cache[name.s] # 0
                 Plugin == installed_plugins[name.s]
             IN  IF ~cached /\ ~Plugin.base THEN keep(NotASubclass(name.s))
                 ELSE LET plugin == IF cached THEN self.plugin_cache[name.s] ELSE fresh
                          cache == IF ~cached /\ Plugin.hooks
                                   THEN [self.plugin_cache EXCEPT ![name.s] = plugin]
                                   ELSE self.plugin_cache
                          errors_message == ErrorsMessage(name.s, result.errors)
                      IN  Loaded(IF errors_message # "" THEN Raised(errors_message)
                                 ELSE Returned(plugin),
                                 cache, self.warnings \o result.warnings, ~cached, TRUE)

\* The item the loop of run_validation is at, taken apart: a mapping of more
\* than one key is refused, any other mapping gives up its entry to popitem
\* (which raises KeyError on an empty one), anything else is the name itself.
\* For a raw mapping the loop walks value.items().
Plugins_take(value, i) ==
    LET item == value.items[i]
        took(out, v, name, cfg) == [out |-> out, value |-> v, name |-> name, cfg |-> cfg]
    IN  IF value.ty = "dict"
        THEN took(Returned(0), value, StrItem(item.key), item.cfg)
        ELSE IF item.ty = "dict"
        THEN IF Len(item.entries) > 1
             THEN took(Raised("Invalid Plugins configuration"), value, item, "None")
             ELSE IF item.entries = <<>>
             THEN took(Escaped("KeyError", "popitem(): dictionary is empty"),
                       value, item, "None")
             ELSE took(Returned(0),
                       [value EXCEPT !.items[i] = DictItem(<<>>)],
                       StrItem(item.entries[1].key), item.entries[1].cfg)
        ELSE took(Returned(0), value, item, "None")

\* collection[name] = plugin, item assignment on an ordered mapping: a name
\* that is already there keeps its place and gets the new value.
SetItem(collection, name, plugin) ==
    IF \E k \in 1..Len(collection) : collection[k][1] = name
    THEN [k \in 1..Len(collection) |->
            IF collection[k][1] = name THEN <<name, plugin>> ELSE collection[k]]
    ELSE Append(collection, <<name, plugin>>)

\* No load_plugin call was made yet.
NoLoad == [state |-> "none", run |-> 0, name |-> StrItem(""), config |-> "None",
           result |-> [errors |-> <<>>, warnings |-> <<>>],
           before |-> <<>>, cached |-> 0, made |-> FALSE, configured |-> FALSE,
           out |-> Returned(0)]

\* A Plugins option, or a MarkdownExtensions option built with or without
\* builtins, and the raw value of its field.
PluginsInit ==
    /\ \E cls \in {"Plugins", "MarkdownExtensions"}, builtins \in {<<>>, <<"plain">>} :
          /\ cls = "Plugins" => builtins = <<>>
          /\ pl_option = [cls |-> cls,
                          plugin_cache |-> [n \in DOMAIN installed_plugins |-> 0],
                          warnings |-> <<>>, builtins |-> builtins,
                          configdata |-> <<>>]
    /\ pl_raw \in PluginValues
    /\ pl_value = pl_raw
    /\ pl_frame = [pc |-> "idle", i |-> 1, run |-> 0, plugins |-> <<>>,
                   extensions |-> <<>>, out |-> Returned(0), load |-> NoLoad]
    /\ pl_log = [made |-> <<>>]
    /\ EarlierIdle /\ LaterIdle("Plugins")

\* run_validation(value) is entered, lines 914-916.
PluginsBegin ==
    /\ pl_option.cls = "Plugins"
    /\ pl_frame.pc = "idle"
    /\ pl_frame.run < MaxRuns
    /\ IF pl_value.ty \notin {"list", "dict"}
       THEN pl_frame' = [pl_frame EXCEPT
                !.run = @ + 1,
                !.out = Raised("Invalid Plugins configuration. Expected a list or dict.")]
       ELSE pl_frame' = [pl_frame EXCEPT
                !.pc = "loop", !.i = 1, !.run = @ + 1, !.plugins = <<>>,
                !.out = [kind |-> "pending", msg |-> "", plugin |-> 0]]
    /\ UNCHANGED <<pl_option, pl_raw, pl_value, pl_log, earlierVars,
                   hkVars, fsVars, chVars, lwVars>>

\* One turn of the loop, lines 918-919 and 921-929.
PluginsItem ==
    /\ pl_option.cls = "Plugins"
    /\ pl_frame.pc = "loop"
    /\ pl_frame.i <= Len(pl_value.items)
    /\ LET t == Plugins_take(pl_value, pl_frame.i) IN
       IF t.out.kind # "return"
       THEN /\ pl_frame' = [pl_frame EXCEPT !.pc = "idle", !.out = t.out]
            /\ UNCHANGED <<pl_option, pl_value, pl_log>>
       ELSE \E result \in LoadConfigResults :
            LET fresh == Len(pl_log.made) + 1
                r == Plugins_load_plugin(pl_option, t.name, t.cfg, fresh, result)
                load == [state |-> "done", run |-> pl_frame.run, name |-> t.name,
                         config |-> t.cfg, result |-> result,
                         before |-> pl_option.warnings,
                         cached |-> IF t.name.s \in DOMAIN installed_plugins
                                    THEN pl_option.plugin_cache[t.name.s] ELSE 0,
                         made |-> r.made, configured |-> r.configured,
                         out |-> r.out]
            IN  /\ pl_value' = t.value
                /\ pl_option' = [pl_option EXCEPT !.plugin_cache = r.plugin_cache,
                                                  !.warnings = r.warnings]
                /\ pl_log' = [pl_log EXCEPT
                      !.made = IF r.made THEN Append(@, t.name.s) ELSE @]
                /\ IF r.out.kind = "return"
                   THEN pl_frame' = [pl_frame EXCEPT
                           !.i = @ + 1, !.load = load,
                           !.plugins = SetItem(@, t.name.s, r.out.plugin)]
                   ELSE pl_frame' = [pl_frame EXCEPT
                           !.pc = "idle", !.out = r.out, !.load = load]
    /\ UNCHANGED <<pl_raw, earlierVars, hkVars, fsVars, chVars, lwVars>>

\* return self.plugins, line 930.
PluginsReturn ==
    /\ pl_option.cls = "Plugins"
    /\ pl_frame.pc = "loop"
    /\ pl_frame.i > Len(pl_value.items)
    /\ pl_frame' = [pl_frame EXCEPT !.pc = "idle", !.out = Returned(0)]
    /\ UNCHANGED <<pl_option, pl_raw, pl_value, pl_log, earlierVars,
                   hkVars, fsVars, chVars, lwVars>>

\* ------------------------------------------------------------ MarkdownExtensions
InvalidExtensions == "Invalid Markdown Extensions configuration"
InvalidExtensionOptions(ext) ==
    "Invalid config options for Markdown Extension '" \o ext \o "'."
FailedToLoad(ext) == "Failed to load extension '" \o ext \o "'."

\* validate_ext_cfg(ext, cfg) for a str ext: the configdata it leaves, or
\* the error.
MarkdownExtensions_validate_ext_cfg(configdata, ext, cfg) ==
    IF cfg = "None" THEN [out |-> Returned(0), configdata |-> configdata]
    ELSE IF cfg # "dict"
    THEN [out |-> Raised(InvalidExtensionOptions(ext)), configdata |-> configdata]
    ELSE [out |-> Returned(0), configdata |-> SetItem(configdata, ext, cfg)]

\* One turn of the loop of run_validation, lines 855-857 and 859-869: what
\* it leaves of the raw value and of configdata, the extension it appends.
MarkdownExtensions_take(value, configdata, i) ==
    LET item == value.items[i]
        took(out, v, c, ext) ==
            [out |-> out, value |-> v, configdata |-> c, ext |-> ext]
    IN  IF value.ty = "dict"
        THEN LET r == MarkdownExtensions_validate_ext_cfg(configdata, item.key, item.cfg)
             IN  took(r.out, value, r.configdata, item.key)
        ELSE IF item.ty = "dict"
        THEN IF Len(item.entries) > 1
             THEN took(Raised(InvalidExtensions), value, configdata, "")
             ELSE IF item.entries = <<>>
             THEN took(Escaped("KeyError", "popitem(): dictionary is empty"),
                       value, configdata, "")
             ELSE LET e == item.entries[1]
                      r == MarkdownExtensions_validate_ext_cfg(configdata, e.key, e.cfg)
                  IN  took(r.out, [value EXCEPT !.items[i] = DictItem(<<>>)],
                           r.configdata, e.key)
        ELSE IF item.ty = "str"
        THEN took(Returned(0), value, configdata, item.s)
        ELSE took(Raised(InvalidExtensions), value, configdata, "")

RECURSIVE reduce_list(_)
\* utils.reduce_list: the first occurrence of every item, in order.
reduce_list(xs) ==
    IF xs = <<>> THEN <<>>
    ELSE LET init == reduce_list(SubSeq(xs, 1, Len(xs) - 1))
             last == xs[Len(xs)]
         IN  IF \E k \in 1..Len(init) : init[k] = last THEN init
             ELSE Append(init, last)

\* run_validation(value) is entered, lines 850-853.
MarkdownBegin ==
    /\ pl_option.cls = "MarkdownExtensions"
    /\ pl_frame.pc = "idle"
    /\ pl_frame.run < MaxRuns
    /\ pl_option' = [pl_option EXCEPT !.configdata = <<>>]
    /\ IF pl_value.ty \notin {"list", "dict"}
       THEN pl_frame' = [pl_frame EXCEPT
                !.run = @ + 1, !.out = Raised(InvalidExtensions)]
       ELSE pl_frame' = [pl_frame EXCEPT
                !.pc = "loop", !.i = 1, !.run = @ + 1, !.extensions = <<>>,
                !.out = [kind |-> "pending", msg |-> "", plugin |-> 0]]
    /\ UNCHANGED <<pl_raw, pl_value, pl_log, earlierVars,
                   hkVars, fsVars, chVars, lwVars>>

\* One turn of the loop, lines 855-857 and 859-869.
MarkdownItem ==
    /\ pl_option.cls = "MarkdownExtensions"
    /\ pl_frame.pc = "loop"
    /\ pl_frame.i <= Len(pl_value.items)
    /\ LET t == MarkdownExtensions_take(pl_value, pl_option.configdata, pl_frame.i)
       IN  /\ pl_value' = t.value
           /\ pl_option' = [pl_option EXCEPT !.configdata = t.configdata]
           /\ IF t.out.kind = "return"
              THEN pl_frame' = [pl_frame EXCEPT
                      !.i = @ + 1, !.extensions = Append(@, t.ext)]
              ELSE pl_frame' = [pl_frame EXCEPT !.pc = "idle", !.out = t.out]
    /\ UNCHANGED <<pl_raw, pl_log, earlierVars, hkVars, fsVars, chVars, lwVars>>

\* The extensions are reduced and registered with Markdown, lines 871-890;
\* broken are those whose registration raises.
MarkdownRegister ==
    /\ pl_option.cls = "MarkdownExtensions"
    /\ pl_frame.pc = "loop"
    /\ pl_frame.i > Len(pl_value.items)
    /\ \E broken \in {{}, {"ghost"}} :
          LET extensions == reduce_list(pl_option.builtins \o pl_frame.extensions)
              bad == {k \in 1..Len(extensions) : extensions[k] \in broken}
          IN  IF bad = {}
              THEN pl_frame' = [pl_frame EXCEPT
                      !.pc = "idle", !.extensions = extensions, !.out = Returned(0)]
              ELSE pl_frame' = [pl_frame EXCEPT
                      !.pc = "idle",
                      !.out = Raised(FailedToLoad(
                                 extensions[CHOOSE k \in bad : \A j \in bad : k <= j]))]
    /\ UNCHANGED <<pl_option, pl_raw, pl_value, pl_log, earlierVars,
                   hkVars, fsVars, chVars, lwVars>>

PluginsNext ==
    \/ PluginsBegin
    \/ PluginsItem
    \/ PluginsReturn
    \/ MarkdownBegin
    \/ MarkdownItem
    \/ MarkdownRegister

SpecPlugins == PluginsInit /\ [][PluginsNext]_vars

\* ------------------------------------------------------------ C11
\* The instances made of the plugin installed under a name.
InstancesOf(name) == {k \in 1..Len(pl_log.made) : pl_log.made[k] = name}
DeclaresHooks(name) == name \in DOMAIN installed_plugins /\ installed_plugins[name].hooks

\* C11: over any sequence of run_validation calls on one Plugins option, a
\* plugin that declares on_startup or on_shutdown is instantiated at most
\* once, its instance is the one the cache holds under its name and the one
\* every load of that name returns; a plugin that declares neither is never
\* in the cache, and every load of it that gets as far as load_config made a
\* new instance and returns that one.
C11_PluginCache ==
    /\ \A n \in DOMAIN installed_plugins :
          IF DeclaresHooks(n)
          THEN /\ Cardinality(InstancesOf(n)) <= 1
               /\ pl_option.plugin_cache[n] # 0 <=> InstancesOf(n) # {}
               /\ pl_option.plugin_cache[n] # 0 => pl_option.plugin_cache[n] \in InstancesOf(n)
          ELSE pl_option.plugin_cache[n] = 0
    /\ LET load == pl_frame.load IN
       load.state = "done" /\ load.configured =>
          /\ DeclaresHooks(load.name.s) =>
                /\ load.made <=> load.cached = 0
                /\ load.out.kind = "return" =>
                      load.out.plugin = pl_option.plugin_cache[load.name.s]
                /\ load.cached # 0 /\ load.out.kind = "return" =>
                      load.out.plugin = load.cached
          /\ ~DeclaresHooks(load.name.s) =>
                /\ load.made
                /\ pl_log.made[Len(pl_log.made)] = load.name.s
                /\ load.out.kind = "return" => load.out.plugin = Len(pl_log.made)

\* The second run over ["search", "plain"] has loaded both again: "search"
\* came out of the cache, "plain" was made twice.
C11_Witness ==
    /\ pl_frame.run = 2
    /\ pl_frame.pc = "idle"
    /\ pl_frame.out.kind = "return"
    /\ pl_raw = ListValue(<<StrItem("search"), StrItem("plain")>>)
    /\ Cardinality(InstancesOf("search")) = 1
    /\ Cardinality(InstancesOf("plain")) = 2
    /\ pl_frame.plugins = << <<"search", 1>>, <<"plain", 3>> >>

\* ------------------------------------------------------------ C12
\* The message names every error load_config reported, in order.
NamesEvery(msg, name, errors) ==
    msg = ErrorsMessage(name, errors) /\ (errors # <<>> => msg # "")

\* C12: a load of a name that is not installed raises a ValidationError; a
\* load whose load_config reports errors raises one ValidationError that
\* holds all of them, and run_validation ends with it; whether load_config
\* reported errors or not, its warnings are appended to the option's warnings.
C12_LoadPluginErrors ==
    LET load == pl_frame.load IN
    load.state = "done" =>
       /\ load.name.ty = "str" /\ load.name.s \notin DOMAIN installed_plugins =>
             /\ load.out = Raised(NotInstalled(load.name.s))
             /\ ~load.configured
       /\ load.configured =>
             /\ pl_option.warnings = load.before \o load.result.warnings
             /\ load.result.errors = <<>> <=> load.out.kind = "return"
             /\ load.result.errors # <<>> =>
                   /\ load.out.kind = "ValidationError"
                   /\ NamesEvery(load.out.msg, load.name.s, load.result.errors)
       /\ load.out.kind # "return" /\ load.run = pl_frame.run =>
             pl_frame.pc = "idle" /\ pl_frame.out = load.out

\* "search" was loaded after an earlier load had left a warning; its
\* load_config reported an error and a warning: the call raised and the
\* option holds both warnings.
C12_Witness ==
    /\ pl_frame.load.state = "done"
    /\ pl_frame.load.name = StrItem("search")
    /\ pl_frame.load.result = [errors |-> << <<"k", "bad">> >>, warnings |-> <<"w1">>]
    /\ pl_frame.load.before = <<"w1">>
    /\ pl_option.warnings = <<"w1", "w1">>
    /\ pl_frame.out = Raised("Plugin 'search' value: 'k'. Error: bad")

\* ============================================================ FilesystemObject
\* A raw path is a str: the sequence of its characters.
FsChars == {Sep, ".", "a"}
PathV(p) == [ty |-> "str", n |-> 0, s |-> "", items |-> p]
FsValues == {PathV(p) : p \in SeqsUpTo(FsChars, MaxPathLen)} \cup {IntV(1)}

\* os.path.isabs, os.path.join, os.path.dirname (posixpath).
os_path_isabs(s) == StartsWith(s, <<Sep>>)
os_path_join(a, b) ==
    IF os_path_isabs(b) THEN b
    ELSE IF a = <<>> \/ a[Len(a)] = Sep THEN a \o b
    ELSE a \o <<Sep>> \o b
os_path_dirname(p) ==
    LET seps == {k \in 1..Len(p) : p[k] = Sep}
        i == IF seps = {} THEN 0 ELSE CHOOSE k \in seps : \A j \in seps : j <= k
        head == SubSeq(p, 1, i)
    IN  IF head # <<>> /\ (\E k \in 1..Len(head) : head[k] # Sep)
        THEN RStrip(head, Sep)
        ELSE head

RECURSIVE Split(_)
\* str.split('/')
Split(p) ==
    LET seps == {k \in 1..Len(p) : p[k] = Sep} IN
    IF seps = {} THEN <<p>>
    ELSE LET n == CHOOSE k \in seps : \A j \in seps : k <= j
         IN  <<SubSeq(p, 1, n - 1)>> \o Split(SubSeq(p, n + 1, Len(p)))

RECURSIVE SepJoin(_)
\* '/'.join(comps)
SepJoin(comps) ==
    IF comps = <<>> THEN <<>>
    ELSE IF Len(comps) = 1 THEN comps[1]
    ELSE comps[1] \o <<Sep>> \o SepJoin(Tail(comps))

RECURSIVE NormComps(_, _, _)
\* The loop of posixpath.normpath over the components.
NormComps(comps, new_comps, initial_slashes) ==
    IF comps = <<>> THEN new_comps
    ELSE LET comp == comps[1]
             rest == Tail(comps)
         IN  IF comp = <<>> \/ comp = <<".">>
             THEN NormComps(rest, new_comps, initial_slashes)
             ELSE IF \/ comp # <<".", ".">>
                     \/ (initial_slashes = 0 /\ new_comps = <<>>)
                     \/ (new_comps # <<>> /\ new_comps[Len(new_comps)] = <<".", ".">>)
             THEN NormComps(rest, Append(new_comps, comp), initial_slashes)
             ELSE IF new_comps # <<>>
             THEN NormComps(rest, SubSeq(new_comps, 1, Len(new_comps) - 1),
                            initial_slashes)
             ELSE NormComps(rest, new_comps, initial_slashes)

\* posixpath.normpath: two leading slashes are kept, three or more are one.
os_path_normpath(path) ==
    IF path = <<>> THEN <<".">>
    ELSE LET initial_slashes ==
                 IF ~StartsWith(path, <<Sep>>) THEN 0
                 ELSE IF StartsWith(path, <<Sep, Sep>>) /\ ~StartsWith(path, <<Sep, Sep, Sep>>)
                 THEN 2 ELSE 1
             joined == SepJoin(NormComps(Split(path), <<>>, initial_slashes))
             out == [k \in 1..initial_slashes |-> Sep] \o joined
         IN  IF out = <<>> THEN <<".">> ELSE out

\* posixpath.abspath, in a process whose working directory is cwd.
os_path_abspath(path, cwd) ==
    os_path_normpath(IF os_path_isabs(path) THEN path ELSE os_path_join(cwd, path))

NotExisting(value, name) ==
    "The path '" \o Text(value) \o "' isn't an existing " \o name \o "."

\* None, or a str.
NoPath == [none |-> TRUE, p |-> <<>>]
SomePath(p) == [none |-> FALSE, p |-> p]
\* Python's truth of an optional str: neither None nor "".
Truthy(x) == ~x.none /\ x.p # <<>>

\* The source locations a config may carry, and the working directories.
SourceLocations ==
    {NoPath, SomePath(<<"/", "c", "/", "m">>), SomePath(<<"/", "m">>),
     SomePath(<<"m">>), SomePath(<<"c", "/", "m">>)}
WorkingDirs == {<<"/">>, <<"/", "w">>}

\* Mutant of pre_validation: the source location itself is kept as the directory.
FilesystemObject_pre_validation_NoDirname(config) ==
    IF Truthy(config.config_file_path) THEN config.config_file_path ELSE NoPath

\* FilesystemObject.pre_validation: self.config_dir.
FilesystemObject_pre_validation(config) ==
    IF Truthy(config.config_file_path)
    THEN SomePath(os_path_dirname(config.config_file_path.p))
    ELSE NoPath

\* Mutant of run_validation: the value is returned as joined, not made absolute.
FilesystemObject_run_validation_NoAbspath(self, value, on_disk, cwd) ==
    LET typed == Type_run_validation([type_ |-> "str"], value) IN
    IF typed.raised THEN typed
    ELSE LET joined == IF Truthy(self.config_dir) /\ ~os_path_isabs(value.items)
                       THEN os_path_join(self.config_dir.p, value.items)
                       ELSE value.items
         IN  IF self.exists /\ ~on_disk
             THEN Raise(NotExisting(joined, self.name))
             ELSE Return(PathV(joined))

\* FilesystemObject.run_validation; on_disk is what existence_test answers
\* for the joined path, cwd the working directory of the process.
FilesystemObject_run_validation(self, value, on_disk, cwd) ==
    LET typed == Type_run_validation([type_ |-> "str"], value) IN
    IF typed.raised THEN typed
    ELSE LET joined == IF Truthy(self.config_dir) /\ ~os_path_isabs(value.items)
                       THEN os_path_join(self.config_dir.p, value.items)
                       ELSE value.items
         IN  IF self.exists /\ ~on_disk
             THEN Raise(NotExisting(joined, self.name))
             ELSE Return(PathV(os_path_abspath(joined, cwd)))

NoRun == [state |-> "none", value |-> NoneV, out |-> Return(NoneV)]

FilesystemInit ==
    /\ \E exists \in BOOLEAN :
          fs_option = [exists |-> exists, config_dir |-> NoPath,
                       name |-> "file or directory"]
    /\ \E source \in SourceLocations, cwd \in WorkingDirs :
          fs_call = [state |-> "built", config_file_path |-> source, cwd |-> cwd,
                     first |-> NoRun, again |-> NoRun]
    /\ EarlierIdle /\ LaterIdle("FilesystemObject")

\* pre_validation(config, key_name), lines 592-595, before any value is
\* validated.
FilesystemPreValidation ==
    /\ fs_call.state = "built"
    /\ fs_call.first.state = "none"
    /\ fs_option' = [fs_option EXCEPT
          !.config_dir = FilesystemObject_pre_validation(fs_call)]
    /\ fs_call' = [fs_call EXCEPT !.state = "bound"]
    /\ UNCHANGED <<earlierVars, plVars, hkVars, chVars, lwVars>>

\* run_validation(value), lines 597-603, on a raw value.
FilesystemRunValidation ==
    /\ fs_call.state \in {"built", "bound"}
    /\ fs_call.first.state = "none"
    /\ \E value \in FsValues, on_disk \in BOOLEAN :
          /\ ~fs_option.exists => on_disk
          /\ fs_call' = [fs_call EXCEPT !.first =
                [state |-> "done", value |-> value,
                 out |-> FilesystemObject_run_validation(fs_option, value,
                                                         on_disk, fs_call.cwd)]]
    /\ UNCHANGED <<fs_option, earlierVars, plVars, hkVars, chVars, lwVars>>

\* run_validation again, on the value the first call returned.
FilesystemRunAgain ==
    /\ fs_call.first.state = "done"
    /\ ~fs_call.first.out.raised
    /\ fs_call.again.state = "none"
    /\ \E on_disk \in BOOLEAN :
          /\ ~fs_option.exists => on_disk
          /\ fs_call' = [fs_call EXCEPT !.again =
                [state |-> "done", value |-> fs_call.first.out.val,
                 out |-> FilesystemObject_run_validation(fs_option,
                            fs_call.first.out.val, on_disk, fs_call.cwd)]]
    /\ UNCHANGED <<fs_option, earlierVars, plVars, hkVars, chVars, lwVars>>

FilesystemNext ==
    FilesystemPreValidation \/ FilesystemRunValidation \/ FilesystemRunAgain

SpecFilesystem == FilesystemInit /\ [][FilesystemNext]_vars

\* ------------------------------------------------------------ C16
RECURSIVE Walk(_, _)
\* The directory reached from the directory `stack` (its names from the
\* root down) by following the components one by one.
Walk(stack, comps) ==
    IF comps = <<>> THEN stack
    ELSE LET c == comps[1] IN
         Walk(IF c = <<>> \/ c = <<".">> THEN stack
              ELSE IF c = <<".", ".">>
                   THEN (IF stack = <<>> THEN stack ELSE SubSeq(stack, 1, Len(stack) - 1))
                   ELSE Append(stack, c),
              Tail(comps))
\* The directory that contains the source location.
SourceDir ==
    LET source == fs_call.config_file_path.p
        file == Walk(<<>>, IF os_path_isabs(source) THEN Split(source)
                           ELSE Split(fs_call.cwd) \o Split(source))
    IN  SubSeq(file, 1, Len(file) - 1)
ResolvedInSourceDir(value) == <<Sep>> \o SepJoin(Walk(SourceDir, Split(value)))

\* C16: for an option built with exists=False whose pre_validation saw a
\* config with a source location, run_validation of a str returns an absolute
\* path; for a relative one it is that path resolved against the directory
\* that contains the source location; and run_validation of the returned path
\* returns the same path.
C16_PathResolution ==
    LET first == fs_call.first
        again == fs_call.again
    IN  /\ fs_call.state = "bound"
        /\ ~fs_option.exists
        /\ ~fs_call.config_file_path.none
        /\ first.state = "done"
        /\ first.value.ty = "str"
        => /\ ~first.out.raised
           /\ os_path_isabs(first.out.val.items)
           /\ ~os_path_isabs(first.value.items) =>
                 first.out.val.items = ResolvedInSourceDir(first.value.items)
           /\ again.state = "done" =>
                 ~again.out.raised /\ again.out.val = first.out.val

\* "a/.." next to "/c/m" came out as "/c", and "/c" came out of the second
\* call again.
C16_Witness ==
    /\ fs_call.state = "bound"
    /\ ~fs_option.exists
    /\ fs_call.config_file_path = SomePath(<<"/", "c", "/", "m">>)
    /\ fs_call.first.state = "done"
    /\ fs_call.first.value = PathV(<<"a", "/", ".", ".">>)
    /\ fs_call.first.out = Return(PathV(<<"/", "c">>))
    /\ fs_call.again.state = "done"
    /\ fs_call.again.out = Return(PathV(<<"/", "c">>))

\* ============================================================ Hooks
\* The hooks a document may list.
MaxHooks == 2

\* The scripts a hooks list may name (paths, as written), a number among them.
HookItems == {PathV(<<"a">>), PathV(<<"b">>), PathV(<<"/", "a">>), IntV(1)}
HookValues ==
    {ListV(xs) : xs \in SeqsUpTo(HookItems, MaxHooks)} \cup {NoneV, StrV("a")}
\* What a collection holds: a plugin the plugins field loaded, or the module
\* a hook script was loaded as.
PluginObject(name) == [kind |-> "plugin", name |-> name, path |-> <<>>]
HookModule(name, path) == [kind |-> "hook", name |-> name, path |-> path]
PluginCollections ==
    {<<>>,
     << <<(<<"a">>), PluginObject(<<"a">>)>> >>,
     << <<(<<"s">>), PluginObject(<<"s">>)>> >>,
     << <<(<<"s">>), PluginObject(<<"s">>)>>, <<(<<"a">>), PluginObject(<<"a">>)>> >>,
     << <<(<<"/", "a">>), PluginObject(<<"/", "a">>)>>, <<(<<"b">>), PluginObject(<<"b">>)>> >>}

\* What Hooks.run_validation did: the hooks it returns, or what it raised.
HooksReturn(hooks) == [kind |-> "return", msg |-> "", hooks |-> hooks]
HooksRaise(exc, m) == [kind |-> exc, msg |-> m, hooks |-> <<>>]

RECURSIVE File_items(_, _, _, _)
\* The second loop of ListOfItems.run_validation over File(exists=True):
\* the paths so far, or the first item's error.
File_items(file, items, files, cwd) ==
    IF items = <<>> THEN Return(ListV(<<>>))
    ELSE LET joined == IF items[1].ty = "str" THEN
                          (IF Truthy(file.config_dir) /\ ~os_path_isabs(items[1].items)
                           THEN os_path_join(file.config_dir.p, items[1].items)
                           ELSE items[1].items)
                       ELSE <<>>
             r == FilesystemObject_run_validation(file, items[1], joined \in files, cwd)
         IN  IF r.raised THEN r
             ELSE LET rest == File_items(file, Tail(items), files, cwd)
                  IN  IF rest.raised THEN rest
                      ELSE Return(ListV(<<r.val>> \o rest.val.items))

CannotImport(path) == "Cannot import path '" \o Text(path) \o "' as a Python module"

RECURSIVE Hooks_load(_, _, _, _)
\* for name, path in zip(value, paths): hooks[name] = self._load_hook(name, path)
Hooks_load(hooks, names, paths, importable) ==
    IF names = <<>> \/ paths = <<>> THEN HooksReturn(hooks)
    ELSE IF paths[1].items \notin importable
    THEN HooksRaise("ValidationError", CannotImport(paths[1].items))
    ELSE Hooks_load(SetItem(hooks, names[1].items,
                            HookModule(names[1].items, paths[1].items)),
                    Tail(names), Tail(paths), importable)

\* Hooks.run_validation: self is the option (bound: ListOfItems.pre_validation
\* stored the config), files the paths that are files, importable those a
\* module spec is found for.
Hooks_run_validation(self, value, config, files, importable, cwd) ==
    LET e == ListOfItems_enter([required |-> FALSE, default |-> ListV(<<>>)], value)
        fake_file_path == IF self.bound THEN config.config_file_path ELSE NoPath
        file == [exists |-> TRUE, name |-> "file",
                 config_dir |-> FilesystemObject_pre_validation(
                                    [config_file_path |-> fake_file_path])]
        paths == IF e.kind = "loop"
                 THEN File_items(file, e.out.val.items, files, cwd)
                 ELSE e.out
    IN  IF paths.raised THEN HooksRaise("ValidationError", paths.msg)
        ELSE IF value = NoneV
        THEN HooksRaise("TypeError", "'NoneType' object is not iterable")
        ELSE Hooks_load(<<>>, value.items, paths.val.items, importable)

RECURSIVE Hooks_post_validation(_, _)
\* Hooks.post_validation: every hook is put into config[self.plugins_key].
Hooks_post_validation(plugins, hooks) ==
    IF hooks = <<>> THEN plugins
    ELSE Hooks_post_validation(
            SetItem(plugins, hooks[1][1], hooks[1][2]),
            Tail(hooks))

\* The paths that may be files, and those a module spec may be found for.
DiskStates ==
    {{<<"a">>, <<"b">>, <<"/", "a">>, <<"/", "c", "/", "a">>, <<"/", "c", "/", "b">>},
     {<<"a">>, <<"/", "a">>, <<"/", "c", "/", "a">>}}
ImportStates ==
    {{<<"/", "a">>, <<"/", "w", "/", "a">>, <<"/", "w", "/", "b">>,
      <<"/", "c", "/", "a">>, <<"/", "c", "/", "b">>},
     {<<"/", "a">>, <<"/", "w", "/", "a">>, <<"/", "c", "/", "a">>}}

\* The config after the plugins field was validated: its collection under
\* plugins_key, the raw hooks under the Hooks option's key.
HooksInit ==
    /\ \E plugins \in PluginCollections, hooks \in HookValues,
          source \in {NoPath, SomePath(<<"/", "c", "/", "m">>)} :
          hk_config = [plugins |-> plugins, hooks |-> hooks,
                       config_file_path |-> source]
    /\ hk_frame = [pc |-> "pre", bound |-> FALSE, out |-> HooksReturn(<<>>),
                   loaded |-> hk_config.plugins]
    /\ EarlierIdle /\ LaterIdle("Hooks")

\* ListOfItems.pre_validation, lines 151-153, which Hooks inherits.
HooksPreValidation ==
    /\ hk_frame.pc = "pre"
    /\ hk_frame' = [hk_frame EXCEPT !.pc = "run", !.bound = TRUE]
    /\ UNCHANGED <<hk_config, earlierVars, plVars, fsVars, chVars, lwVars>>

\* config[key_name] = Hooks.run_validation(config[key_name]), lines 973-978.
HooksRunValidation ==
    /\ hk_frame.pc = "run"
    /\ \E files \in DiskStates, importable \in ImportStates :
          LET r == Hooks_run_validation(hk_frame, hk_config.hooks, hk_config,
                                        files, importable, <<"/", "w">>)
          IN  IF r.kind = "return"
              THEN /\ hk_config' = [hk_config EXCEPT !.hooks = r.hooks]
                   /\ hk_frame' = [hk_frame EXCEPT !.pc = "post", !.out = r]
              ELSE /\ hk_frame' = [hk_frame EXCEPT !.pc = "failed", !.out = r]
                   /\ UNCHANGED hk_config
    /\ UNCHANGED <<earlierVars, plVars, fsVars, chVars, lwVars>>

\* Hooks.post_validation(config, key_name), lines 991-994.
HooksPostValidation ==
    /\ hk_frame.pc = "post"
    /\ hk_config' = [hk_config EXCEPT
          !.plugins = Hooks_post_validation(hk_config.plugins, hk_config.hooks)]
    /\ hk_frame' = [hk_frame EXCEPT !.pc = "done"]
    /\ UNCHANGED <<earlierVars, plVars, fsVars, chVars, lwVars>>

HooksNext == HooksPreValidation \/ HooksRunValidation \/ HooksPostValidation

SpecHooks == HooksInit /\ [][HooksNext]_vars

\* ------------------------------------------------------------ C13
Names(collection) == {collection[k][1] : k \in 1..Len(collection)}
At(collection, name) ==
    collection[CHOOSE k \in 1..Len(collection) : collection[k][1] = name][2]

\* C13: after post_validation every loaded hook's name is in the plugin
\* collection; under a name the collection did not hold it is the hook, and
\* under a name a plugin was loaded as earlier it is still that plugin, not
\* the hook.
C13_EarlierPluginKept ==
    hk_frame.pc = "done" =>
       \A name \in Names(hk_config.hooks) :
          /\ name \in Names(hk_config.plugins)
          /\ At(hk_config.plugins, name) =
                IF name \in Names(hk_frame.loaded)
                THEN At(hk_frame.loaded, name)
                ELSE At(hk_config.hooks, name)

\* ------------------------------------------------------------ C14
\* C14: run_validation of a Plugins or MarkdownExtensions option never changes
\* the raw value it is given: at every point the value object holds what was
\* loaded, each single-key mapping of the list its key and configuration
\* included.
C14_RawNotMutated == pl_value = pl_raw

\* ------------------------------------------------------------ C19
\* The item is a mapping that does not have exactly one key.
NotOneKey(item) == item.ty = "dict" /\ Len(item.entries) # 1

\* C19: no exception other than a ValidationError leaves run_validation, and
\* a call on a list that holds a mapping without exactly one key (none, or
\* two and more) ends with a ValidationError.
C19_OnlyValidationErrors ==
    /\ pl_frame.out.kind \in {"return", "pending", "ValidationError"}
    /\ (/\ pl_frame.pc = "idle"
        /\ pl_frame.run >= 1
        /\ pl_raw.ty = "list"
        /\ \E k \in 1..Len(pl_raw.items) : NotOneKey(pl_raw.items[k]))
       => pl_frame.out.kind = "ValidationError"

\* ------------------------------------------------------------ C15
\* The normalized values validate() yields: those of the declared fields.
NormalizedOutput == [f \in Fields |-> data[f]]

MaxChoices == 2

\* repr() of a value, and of a list of values.
Repr(v) ==
    IF v.ty = "str" THEN "'" \o v.s \o "'"
    ELSE IF v.ty = "int" THEN Digits[v.n + 1]
    ELSE "None"
RECURSIVE ReprItems(_)
ReprItems(xs) ==
    IF xs = <<>> THEN ""
    ELSE IF Len(xs) = 1 THEN Repr(xs[1])
    ELSE Repr(xs[1]) \o ", " \o ReprItems(Tail(xs))
ReprOf(v) == IF v.ty = "list" THEN "[" \o ReprItems(v.items) \o "]" ELSE Repr(v)
\* str() of a value: a str is itself.
StrOf(v) == IF v.ty = "str" THEN v.s ELSE ReprOf(v)

\* value in choices, for choices that are a list.
In(value, choices) == \E k \in 1..Len(choices.items) : choices.items[k] = value

ExpectedIterable(choices) == "Expected iterable of choices, got " \o StrOf(choices)
NotOneOf(default, choices) == ReprOf(default) \o " is not one of " \o ReprOf(choices)
ExpectedOneOf(choices, value) ==
    "Expected one of: " \o StrOf(choices) \o " but received: " \o ReprOf(value)

\* What the constructor did: the option, or the ValueError.
Built(choices, default, required) ==
    [state |-> "built", choices |-> choices, default |-> default,
     required |-> required, msg |-> ""]
ValueError(choices, default, required, m) ==
    [state |-> "ValueError", choices |-> choices, default |-> default,
     required |-> required, msg |-> m]

\* Choice.__init__(choices, default, required=...): len() of a str is its
\* length, of an object without a length the TypeError gives 0.
Choice_init(choices, default, required) ==
    LET length == IF choices.ty = "list" THEN Len(choices.items)
                  ELSE IF choices.ty = "str" /\ choices.s # "" THEN 1
                  ELSE 0
    IN  IF length = 0 \/ choices.ty = "str"
        THEN ValueError(choices, default, required, ExpectedIterable(choices))
        ELSE IF default # NoneV /\ ~In(default, choices)
        THEN ValueError(choices, default, required, NotOneOf(default, choices))
        ELSE Built(choices, default, required)

\* Mutant of run_validation: the message names the value only.
Choice_run_validation_NoChoices(self, value) ==
    IF ~In(value, self.choices)
    THEN Raise("Expected one of the choices but received: " \o ReprOf(value))
    ELSE Return(value)

\* Choice.run_validation
Choice_run_validation(self, value) ==
    IF ~In(value, self.choices)
    THEN Raise(ExpectedOneOf(self.choices, value))
    ELSE Return(value)

\* OptionallyRequired.validate, which Choice inherits, lines 122-130.
Choice_validate(self, value) ==
    IF value = NoneV
    THEN IF self.default # NoneV THEN Choice_run_validation(self, self.default)
         ELSE IF ~self.required THEN Return(NoneV)
         ELSE Raise(MissingRequired)
    ELSE Choice_run_validation(self, value)

ChoiceItems == {StrV("a"), StrV("b"), IntV(1)}
\* What a schema author may pass as choices: a list, a str, a number.
ChoiceArgs ==
    {ListV(xs) : xs \in SeqsUpTo(ChoiceItems, MaxChoices)}
    \cup {StrV("ab"), StrV(""), IntV(5)}

ChoiceInit ==
    /\ \E choices \in ChoiceArgs, default \in {NoneV, StrV("a"), StrV("c"), IntV(1)},
          required \in BOOLEAN :
          ch_option = [state |-> "args", choices |-> choices, default |-> default,
                       required |-> required, msg |-> ""]
    /\ ch_call = [state |-> "none", value |-> NoneV, out |-> Return(NoneV)]
    /\ EarlierIdle /\ LaterIdle("Choice")

\* Choice(choices, default=..., required=...), lines 250-262.
ChoiceConstruct ==
    /\ ch_option.state = "args"
    /\ ch_option' = Choice_init(ch_option.choices, ch_option.default,
                                ch_option.required)
    /\ UNCHANGED <<ch_call, earlierVars, plVars, hkVars, fsVars, lwVars>>

\* validate(value) on the constructed option.
ChoiceValidate ==
    /\ ch_option.state = "built"
    /\ ch_call.state = "none"
    /\ \E value \in {NoneV, StrV("a"), StrV("b"), StrV("c"), IntV(1), IntV(3)} :
          ch_call' = [state |-> "done", value |-> value,
                      out |-> Choice_validate(ch_option, value)]
    /\ UNCHANGED <<ch_option, earlierVars, plVars, hkVars, fsVars, lwVars>>

ChoiceNext == ChoiceConstruct \/ ChoiceValidate

SpecChoice == ChoiceInit /\ [][ChoiceNext]_vars

\* ------------------------------------------------------------ C17
\* The value is one of the members of a choices list.
IsMember(value, choices) ==
    choices.ty = "list" /\ value \in {choices.items[k] : k \in 1..Len(choices.items)}

\* C17: the constructor raises for choices that are empty, a single str or
\* without a length, and for a default other than None that is not one of
\* the choices, and constructs the option otherwise; validate on a
\* constructed option returns a value that is one of the choices as it is,
\* rejects any other value with a ValidationError that names the choices
\* and the value, and for an absent value yields the default (None when
\* there is none and the option is not required).
C17_Choice ==
    /\ ch_option.state # "args" =>
          (ch_option.state = "ValueError" <=>
              \/ ch_option.choices.ty # "list"
              \/ ch_option.choices.items = <<>>
              \/ (ch_option.default # NoneV
                  /\ ~IsMember(ch_option.default, ch_option.choices)))
    /\ ch_call.state = "done" =>
          LET value == ch_call.value
              out == ch_call.out
          IN  /\ value # NoneV /\ IsMember(value, ch_option.choices) =>
                    out = Return(value)
              /\ value # NoneV /\ ~IsMember(value, ch_option.choices) =>
                    /\ out.raised
                    /\ out.msg = "Expected one of: " \o ReprOf(ch_option.choices)
                                    \o " but received: " \o ReprOf(value)
              /\ value = NoneV /\ (ch_option.default # NoneV \/ ~ch_option.required) =>
                    out = Return(ch_option.default)

\* Choice(["a", "b"], default="a") refused "c", naming the choices and "c".
C17_Witness ==
    /\ ch_option.state = "built"
    /\ ch_option.choices = ListV(<<StrV("a"), StrV("b")>>)
    /\ ch_option.default = StrV("a")
    /\ ch_call.state = "done"
    /\ ch_call.value = StrV("c")
    /\ ch_call.out = Raise("Expected one of: ['a', 'b'] but received: 'c'")

\* ============================================ ListOfItems: the warnings
\* Python lists are objects: two attributes may refer to one list, and an
\* assignment to an attribute makes it refer to another one.  `heap` maps the
\* identity of every list an option still refers to onto its contents; the
\* warnings attributes hold identities.
Fresh(heap) == CHOOSE r \in 1..(Cardinality(DOMAIN heap) + 1) : r \notin DOMAIN heap

\* The lists of `heap` that one of the two options still refers to.
Live(heap, list_ref, item_ref) == [r \in {list_ref, item_ref} |-> heap[r]]

\* The item options: a Deprecated over a BaseConfigOption, which appends to
\* the list self.warnings refers to, and a SubConfig, which assigns
\* self.warnings when it validates.
ListItemOptions ==
    {[cls |-> "Deprecated", removed |-> FALSE, moved_to |-> <<>>,
      do_validation |-> FALSE]}
    \cup {[cls |-> "SubConfig", removed |-> FALSE, moved_to |-> <<>>,
           do_validation |-> SubConfig_do_validation(TRUE, v)] :
             v \in {"True", "False"}}

\* ListOfItems.__init__(option_type): super().__init__() makes the option's
\* empty warnings list, and option_type.warnings is made to refer to it.
ListOfItems_init(option_type) ==
    [state |-> "built", required |-> FALSE, default |-> NoneV,
     option_type |-> option_type, warnings |-> 1, item_warnings |-> 1,
     heap |-> (1 :> <<>>)]

\* reset_warnings() of the list option, which ListOfItems does not override:
\* self.warnings = [], a new list.
BaseConfigOption_reset_warnings(self) ==
    LET ref == Fresh(self.heap)
    IN  [self EXCEPT !.warnings = ref,
                     !.heap = Live(self.heap @@ (ref :> <<>>), ref, self.item_warnings)]

\* option_type.pre_validation(fake_config, key_name): Deprecated appends its
\* message to the list self.warnings refers to when the item is not None;
\* SubConfig inherits the empty pre_validation.
ItemOption_pre_validation(self, value, key_name) ==
    LET o == self.option_type
        message == DeprecatedMessage(o, key_name)
    IN  IF o.cls = "Deprecated" /\ value # NoneV
        THEN [self |-> [self EXCEPT !.heap[self.item_warnings] =
                                        Append(@, message)],
              recorded |-> <<message>>]
        ELSE [self |-> self, recorded |-> <<>>]

\* option_type.run_validation(item): SubConfig.run_validation assigns the
\* warnings config.validate() returned to self.warnings, a list of its own,
\* before it raises or returns; Deprecated inherits run_validation, which
\* returns the value.
ItemOption_run_validation(self, value, nested) ==
    LET o == self.option_type
        call == SubConfig_run_validation(
                    [from_class |-> TRUE, do_validation |-> o.do_validation,
                     warnings |-> self.heap[self.item_warnings]], value, nested)
        records == o.cls = "SubConfig" /\ o.do_validation /\ value.ty = "dict"
        ref == Fresh(self.heap)
    IN  IF o.cls # "SubConfig"
        THEN [self |-> self, out |-> Return(value), recorded |-> <<>>]
        ELSE [self |-> IF records
                       THEN [self EXCEPT
                               !.item_warnings = ref,
                               !.heap = Live(self.heap @@ (ref :> nested.warnings),
                                             self.warnings, ref)]
                       ELSE self,
              out |-> call.out,
              recorded |-> IF records THEN nested.warnings ELSE <<>>]

\* The items of a list, and the lists given to the option.
ListItemValues == {NoneV, IntV(1), DictV}
ListValues == {NoneV} \cup {ListV(xs) : xs \in SeqsUpTo(ListItemValues, MaxItems)}

\* What config.validate() of one item's nested config may return.
NestedResults ==
    {[failed |-> f, warnings |-> w] :
        f \in {<<>>, << <<"a", "Expected type">> >>}, w \in NestedWarnings}

Idle(run) == [pc |-> "idle", phase |-> "none", i |-> 1, value |-> NoneV,
              fake_config |-> <<>>, recorded |-> <<>>, run |-> run,
              out |-> Return(NoneV)]

ListWarningsInit ==
    /\ \E option_type \in ListItemOptions : lw_option = ListOfItems_init(option_type)
    /\ lw_frame = Idle(0)
    /\ EarlierIdle /\ LaterIdle("ListOfItems")

\* pre_validation("items") and run_validation(value) up to the loops.
ListWarningsBegin ==
    /\ lw_frame.pc = "idle"
    /\ lw_frame.run < MaxRuns
    /\ \E value \in ListValues :
          LET enter == ListOfItems_enter(lw_option, value)
          IN  lw_frame' = [lw_frame EXCEPT
                  !.pc = IF enter.kind = "raise" THEN "raised"
                         ELSE IF enter.kind = "return" THEN "returned"
                         ELSE "loop",
                  !.phase = IF enter.kind = "loop" THEN "pre" ELSE "none",
                  !.i = 1,
                  !.value = value,
                  !.fake_config = IF enter.kind = "loop" THEN value.items ELSE <<>>,
                  !.run = @ + 1,
                  !.out = enter.out]
    /\ UNCHANGED <<lw_option, earlierVars, plVars, hkVars, fsVars, chVars>>

\* One call of the first loop.
ListWarningsItemPre ==
    /\ lw_frame.pc = "loop" /\ lw_frame.phase = "pre"
    /\ LET i == lw_frame.i
           call == ItemOption_pre_validation(lw_option, lw_frame.fake_config[i],
                                             FakeKey("items", i - 1))
           to == AfterItem("pre", i, Len(lw_frame.fake_config))
       IN  /\ lw_option' = call.self
           /\ lw_frame' = [lw_frame EXCEPT !.phase = to.phase, !.i = to.i,
                                           !.recorded = @ \o call.recorded]
    /\ UNCHANGED <<earlierVars, plVars, hkVars, fsVars, chVars>>

\* One call of the second loop; an exception of the item option leaves
\* run_validation.
ListWarningsItemRun ==
    /\ lw_frame.pc = "loop" /\ lw_frame.phase = "run"
    /\ \E nested \in NestedResults :
          LET i == lw_frame.i
              call == ItemOption_run_validation(lw_option, lw_frame.fake_config[i],
                                                nested)
              to == AfterItem("run", i, Len(lw_frame.fake_config))
          IN  /\ lw_option.option_type.cls # "SubConfig" => nested = [failed |-> <<>>, warnings |-> <<>>]
              /\ lw_option' = call.self
              /\ lw_frame' =
                    IF call.out.raised
                    THEN [lw_frame EXCEPT !.pc = "raised", !.out = call.out,
                                          !.recorded = @ \o call.recorded]
                    ELSE [lw_frame EXCEPT !.phase = to.phase, !.i = to.i,
                                          !.fake_config[i] = call.out.val,
                                          !.recorded = @ \o call.recorded]
    /\ UNCHANGED <<earlierVars, plVars, hkVars, fsVars, chVars>>

\* One call of the third loop: neither item option does anything in
\* post_validation.
ListWarningsItemPost ==
    /\ lw_frame.pc = "loop" /\ lw_frame.phase = "post"
    /\ LET to == AfterItem("post", lw_frame.i, Len(lw_frame.fake_config))
       IN  lw_frame' = [lw_frame EXCEPT !.phase = to.phase, !.i = to.i]
    /\ UNCHANGED <<lw_option, earlierVars, plVars, hkVars, fsVars, chVars>>

\* return [fake_config[k] for k in fake_keys]
ListWarningsReturn ==
    /\ lw_frame.pc = "loop" /\ lw_frame.phase = "return"
    /\ lw_frame' = [lw_frame EXCEPT
                       !.pc = "returned",
                       !.out = Return(ListOfItems_result(lw_frame.fake_config))]
    /\ UNCHANGED <<lw_option, earlierVars, plVars, hkVars, fsVars, chVars>>

\* Between two validations the warnings of the list option are reset.
ListWarningsReset ==
    /\ lw_frame.pc \in {"returned", "raised"}
    /\ lw_option' = BaseConfigOption_reset_warnings(lw_option)
    /\ lw_frame' = Idle(lw_frame.run)
    /\ UNCHANGED <<earlierVars, plVars, hkVars, fsVars, chVars>>

ListWarningsNext ==
    \/ ListWarningsBegin
    \/ ListWarningsItemPre
    \/ ListWarningsItemRun
    \/ ListWarningsItemPost
    \/ ListWarningsReturn
    \/ ListWarningsReset

SpecListWarnings == ListWarningsInit /\ [][ListWarningsNext]_vars

\* The warnings in the list option's own buffer.
OwnWarnings == lw_option.heap[lw_option.warnings]

\* C18: when run_validation returns, every warning the item option recorded
\* while the list was validated is in the ListOfItems option's own warnings,
\* for a SubConfig item option that validates too, and after a reset of the
\* list option's warnings.
C18_ItemWarningsInOwnBuffer ==
    (lw_frame.pc = "returned" /\ lw_option.state = "built")
        => \A k \in 1..Len(lw_frame.recorded) :
              \E j \in 1..Len(OwnWarnings) : OwnWarnings[j] = lw_frame.recorded[k]

====
